---- MODULE Spec2Model ----
(***************************************************************************)
(* Wakala reconciler: ingestion of settlement reports (IngestReport) and   *)
(* the full reconciliation pipeline (RunFullReconciliation) over the       *)
(* SQLite stores transactions, settlement_reports, settlement_records and  *)
(* discrepancies.                                                          *)
(*                                                                         *)
(* Money is kept in hundredths (cents) of the currency; a float64 amount   *)
(* a is the integer 100*a.  Time is kept in hours.  Every store call is    *)
(* one atomic step; a store call may fail (an I/O error of the database).  *)
(***************************************************************************)
EXTENDS Integers, Sequences, FiniteSets, TLC

VARIABLES
    transactions,        \* table transactions, rows in rowid order
    settlement_reports,  \* table settlement_reports (a set of rows)
    settlement_records,  \* table settlement_records, rows in rowid order
    discrepancies,       \* table discrepancies, rows in rowid order
    now,                 \* time.Now(), in hours
    nano,                \* time.Now().UnixNano() as a strictly increasing tick
    pc,                  \* per caller: position inside the running call
    call,                \* per caller: the running call and its arguments
    loc,                 \* per caller: local variables of the running call
    result,              \* per caller: what the finished call returned
    hist,                \* per caller: observations of the running call
    faults,              \* store-call failures that may still happen
    ingested,            \* the file contents whose ingestion has succeeded
    last                 \* the stores as the last undisturbed run left them

vars == <<transactions, settlement_reports, settlement_records, discrepancies,
          now, nano, pc, call, loc, result, hist, faults, ingested, last>>

stores == <<transactions, settlement_reports, settlement_records, discrepancies>>

----------------------------------------------------------------------------
(* Bounds of the model *)

\* number of IngestReport calls that get past the digest check
MaxIngests == 2
\* last hour the clock reaches
MaxClock == 50
\* store calls that fail in one behaviour
MaxFaults == 1

Procs == {1, 2}

NULL == ""

----------------------------------------------------------------------------
(* internal/currency *)

\* units per 1 USD, times ten (129.5, 1580.0, 18.6, 1.0)
ratesPerUSD == [KES |-> 1295, NGN |-> 15800, ZAR |-> 186, USD |-> 10]

\* amount / rate on cents, rounded towards zero
ToUSD(amount, currency) ==
    IF currency \in DOMAIN ratesPerUSD
    THEN [err |-> FALSE, usd |-> (amount * 10) \div ratesPerUSD[currency]]
    ELSE [err |-> TRUE, usd |-> 0]

----------------------------------------------------------------------------
(* Report files.  A file is its delimiter-separated text: the number of    *)
(* fields of the header line and the data rows; kind "json" is a JSON      *)
(* document with a records array.                                          *)

Row(ref, gross, fee, net, date) ==
    [nfields |-> 7, ref |-> ref, gross |-> gross, fee |-> fee, net |-> net,
     date |-> date, numok |-> TRUE, dateok |-> TRUE, batch |-> "B1"]

\* the requests that are sent: file contents, processor tag, format tag
Requests ==
    { <<"A1", "afripay", "csv_a">>, <<"A2", "afripay", "csv_a">>,
      <<"C1", "capepay", "csv_c">>, <<"A1", "capepay", "xml">>,
      <<"C1", "afripay", "csv_a">>, <<"B1", "afripay", "csv_a">>,
      <<"B2", "capepay", "csv_c">>, <<"B3", "afripay", "csv_a">> }

\* the requests with the files of special shape: a row that comes twice, a
\* JSON document, a row with too few fields; and an AfriPay file sent with
\* the identifier of another processor
FileRequests ==
    { <<"A1", "afripay", "csv_a">>, <<"D1", "afripay", "csv_a">>,
      <<"J1", "nairagateway", "json_b">>, <<"S1", "afripay", "csv_a">>,
      <<"A1", "capepay", "csv_a">> }

File(data) ==
    CASE data = "A1" ->
           [kind |-> "csv", comma |-> ",", header |-> 7,
            rows |-> << Row("R1", 129500, 1900, 127600, 24),
                        Row("R2", 4767103, 71507, 4695596, 30) >>]
      [] data = "A2" ->
           [kind |-> "csv", comma |-> ",", header |-> 7,
            rows |-> << Row("R1", 129500, 1900, 127600, 24),
                        Row("R1", 134680, 1900, 132780, 30) >>]
      [] data = "C1" ->
           [kind |-> "csv", comma |-> "|", header |-> 7,
            rows |-> << Row("R1", 18600, 100, 18500, 26),
                        Row("R2", 37200, 1860, 35340, 26) >>]
      [] data = "B1" ->
           [kind |-> "csv", comma |-> ",", header |-> 7,
            rows |-> << Row("R5", 129500, 1900, 127600, 24),
                        [Row("R6", 0, 0, 0, 24) EXCEPT !.numok = FALSE] >>]
      [] data = "B2" ->
           [kind |-> "csv", comma |-> "|", header |-> 7,
            rows |-> << Row("R5", 18600, 100, 18500, 26),
                        [Row("R6", 18600, 100, 18500, 0)
                            EXCEPT !.dateok = FALSE] >>]
      [] data = "B3" ->
           [kind |-> "csv", comma |-> ",", header |-> 6,
            rows |-> << [Row("R5", 129500, 1900, 127600, 24)
                            EXCEPT !.nfields = 6] >>]
      [] data = "D1" ->
           [kind |-> "csv", comma |-> ",", header |-> 7,
            rows |-> << Row("R5", 129500, 1900, 127600, 24),
                        Row("R5", 129500, 1900, 127600, 24) >>]
      [] data = "S1" ->
           [kind |-> "csv", comma |-> ",", header |-> 7,
            rows |-> << Row("R5", 129500, 1900, 127600, 24),
                        [Row("R6", 129500, 1900, 127600, 24)
                            EXCEPT !.nfields = 5],
                        Row("R7", 129500, 1900, 127600, 24) >>]
      [] data = "J1" ->
           [kind |-> "json", comma |-> ",", header |-> 0,
            rows |-> << Row("R3", 1580000, 0, 1580000, 26) >>]

\* sha256.Sum256 printed in hex: distinct contents have distinct digests
Sha256Hex(data) == <<"sha256", data>>

----------------------------------------------------------------------------
(* internal/ingestion: the format parsers *)

\* encoding/csv: the fields Read() splits a line into under delimiter comma
FieldsSeen(file, comma, n) == IF file.comma = comma THEN n ELSE 1

\* variant: the id of the report is part of the id of the record
SettlementRecord_PerReport(id, reportID, processor, row, currency, g, n) ==
    [id |-> <<id, reportID>>, report_id |-> reportID, processor |-> processor,
     processor_transaction_id |-> row.ref, wakala_transaction_id |-> NULL,
     gross_amount |-> row.gross, fee_amount |-> row.fee,
     net_amount |-> row.net, currency |-> currency,
     usd_gross_amount |-> g, usd_net_amount |-> n,
     settlement_date |-> row.date, batch_id |-> row.batch]

SettlementRecord(id, reportID, processor, row, currency, usdGross, usdNet) ==
    [id |-> id, report_id |-> reportID, processor |-> processor,
     processor_transaction_id |-> row.ref, wakala_transaction_id |-> NULL,
     gross_amount |-> row.gross, fee_amount |-> row.fee,
     net_amount |-> row.net, currency |-> currency,
     usd_gross_amount |-> usdGross, usd_net_amount |-> usdNet,
     settlement_date |-> row.date, batch_id |-> row.batch]

ParseError == [err |-> TRUE, records |-> <<>>, batchID |-> ""]

\* the row loop of the two CSV parsers; the row at index i is line i + 1
RECURSIVE ParseRows(_, _, _, _, _, _, _, _)
ParseRows(file, comma, prefix, processor, currency, reportID, i, acc) ==
    IF i > Len(file.rows) THEN acc
    ELSE LET row == file.rows[i]
             lineNum == i + 1
             n == FieldsSeen(file, comma, row.nfields)
             usdGross == ToUSD(row.gross, currency)
             usdNet == ToUSD(row.net, currency)
             rec == SettlementRecord(<<prefix, row.ref, lineNum>>, reportID,
                        processor, row, currency, usdGross.usd, usdNet.usd)
         IN  IF n # FieldsSeen(file, comma, file.header) THEN ParseError
             ELSE IF n < 7
             THEN ParseRows(file, comma, prefix, processor, currency,
                            reportID, i + 1, acc)
             ELSE IF ~row.numok \/ ~row.dateok \/ usdGross.err \/ usdNet.err
             THEN ParseError
             ELSE ParseRows(file, comma, prefix, processor, currency,
                            reportID, i + 1,
                            [err |-> FALSE,
                             records |-> Append(acc.records, rec),
                             batchID |-> row.batch])

\* variant: a malformed row ends the loop with the records read so far
RECURSIVE ParseRows_Partial(_, _, _, _, _, _, _, _)
ParseRows_Partial(file, comma, prefix, processor, currency, reportID, i, acc) ==
    IF i > Len(file.rows) THEN acc
    ELSE LET row == file.rows[i]
             usdGross == ToUSD(row.gross, currency)
             usdNet == ToUSD(row.net, currency)
             rec == SettlementRecord(<<prefix, row.ref, i + 1>>, reportID,
                        processor, row, currency, usdGross.usd, usdNet.usd)
         IN  IF ~row.numok \/ ~row.dateok THEN acc
             ELSE ParseRows_Partial(file, comma, prefix, processor, currency,
                                    reportID, i + 1,
                                    [err |-> FALSE,
                                     records |-> Append(acc.records, rec),
                                     batchID |-> row.batch])

ParseCSV_Partial(file, comma, prefix, processor, currency, reportID) ==
    IF file.kind # "csv" \/ FieldsSeen(file, comma, file.header) < 7
    THEN ParseError
    ELSE ParseRows_Partial(file, comma, prefix, processor, currency, reportID,
                           1, [err |-> FALSE, records |-> <<>>, batchID |-> ""])

ParseCSV(file, comma, prefix, processor, currency, reportID) ==
    IF file.kind # "csv" \/ FieldsSeen(file, comma, file.header) < 7
    THEN ParseError
    ELSE ParseRows(file, comma, prefix, processor, currency, reportID, 1,
                   [err |-> FALSE, records |-> <<>>, batchID |-> ""])

ParseCapePayCSV(data, reportID) ==
    ParseCSV(File(data), "|", "SR-CP", "capepay", "ZAR", reportID)

ParseAfriPayCSV(data, reportID) ==
    ParseCSV(File(data), ",", "SR-AP", "afripay", "KES", reportID)

\* entry i of the records array is index i - 1
RECURSIVE ParseEntries(_, _, _, _)
ParseEntries(file, reportID, i, acc) ==
    IF i > Len(file.rows) THEN acc
    ELSE LET row == file.rows[i]
             usdGross == ToUSD(row.gross, "NGN")
             usdNet == ToUSD(row.net, "NGN")
             rec == SettlementRecord(<<"SR-NG", row.ref, i - 1>>, reportID,
                        "nairagateway", row, "NGN", usdGross.usd, usdNet.usd)
         IN  IF ~row.dateok \/ usdGross.err \/ usdNet.err THEN ParseError
             ELSE ParseEntries(file, reportID, i + 1,
                               [acc EXCEPT !.records = Append(@, rec)])

ParseNairaGatewayJSON(data, reportID) ==
    LET file == File(data)
    IN  IF file.kind # "json" \/ \E i \in DOMAIN file.rows : ~file.rows[i].numok
        THEN ParseError
        ELSE ParseEntries(file, reportID, 1,
                 [err |-> FALSE, records |-> <<>>, batchID |-> "B1"])

----------------------------------------------------------------------------
(* internal/repository: the tables and the statements run on them *)

Ids(table) == {table[i].id : i \in DOMAIN table}

Range(seq) == {seq[i] : i \in DOMAIN seq}

\* variant: COUNT(*) > 1
ReportExistsByHash_MoreThanOne(reports, hash) ==
    Cardinality({r \in reports : r.file_hash = hash}) > 1

\* settlement_reports.file_hash lookup: COUNT(*) > 0
ReportExistsByHash(reports, hash) == \E r \in reports : r.file_hash = hash

\* variant: file_hash without the UNIQUE constraint
InsertReport_NoUnique(reports, rpt) ==
    IF \E r \in reports : r.id = rpt.id
    THEN [err |-> TRUE, reports |-> reports]
    ELSE [err |-> FALSE, reports |-> reports \cup {rpt}]

\* INSERT INTO settlement_reports: id is the primary key, file_hash is UNIQUE
InsertReport(reports, rpt) ==
    IF \E r \in reports : r.id = rpt.id \/ r.file_hash = rpt.file_hash
    THEN [err |-> TRUE, reports |-> reports]
    ELSE [err |-> FALSE, reports |-> reports \cup {rpt}]

\* one INSERT OR IGNORE per row: a row whose primary key exists is skipped
RECURSIVE InsertOrIgnore(_, _, _)
InsertOrIgnore(table, rows, inserted) ==
    IF rows = <<>> THEN [table |-> table, inserted |-> inserted]
    ELSE IF Head(rows).id \in Ids(table)
         THEN InsertOrIgnore(table, Tail(rows), inserted)
         ELSE InsertOrIgnore(Append(table, Head(rows)), Tail(rows), inserted + 1)

\* variant: INSERT OR REPLACE, the row of a known id is written anew
InsertRecords_Replace(table, records) ==
    LET Sent(id) == records[CHOOSE j \in DOMAIN records : records[j].id = id]
        IsNew(rec) == rec.id \notin Ids(table)
    IN  [table |-> [i \in DOMAIN table |->
                       IF table[i].id \in Ids(records) THEN Sent(table[i].id)
                       ELSE table[i]] \o SelectSeq(records, IsNew),
         inserted |-> Len(records)]

InsertRecords(table, records) == InsertOrIgnore(table, records, 0)

BulkInsert(table, discs) == InsertOrIgnore(table, discs, 0)

IsUnmatched(rec) == rec.wakala_transaction_id = NULL
IsMatched(rec) == rec.wakala_transaction_id # NULL

\* variant: the query without its WHERE clause
GetUnmatchedRecords_All(table) == table

GetUnmatchedRecords(table) == SelectSeq(table, IsUnmatched)

\* variant: the query on the link being NULL, which no matched record meets
GetMatchedRecords_Null(table) ==
    LET Both(rec) == IsMatched(rec) /\ IsUnmatched(rec)
    IN  SelectSeq(table, Both)

GetMatchedRecords(table) == SelectSeq(table, IsMatched)

UpdateWakalaTransactionID(table, recordID, txnID) ==
    [i \in DOMAIN table |->
        IF table[i].id = recordID
        THEN [table[i] EXCEPT !.wakala_transaction_id = txnID]
        ELSE table[i]]

\* QueryRow: the first row the query selects, <<>> for ErrNoRows
FirstRow(hits) == IF hits = <<>> THEN <<>> ELSE <<Head(hits)>>

\* variant: WHERE processor_reference = ?
GetByProcessorRef_RefOnly(table, processor, ref) ==
    LET Cond(t) == t.processor_reference = ref
    IN  FirstRow(SelectSeq(table, Cond))

\* variant: WHERE processor = ? AND id = ?
GetByProcessorRef_ById(table, processor, ref) ==
    LET Cond(t) == t.processor = processor /\ t.id = ref
    IN  FirstRow(SelectSeq(table, Cond))

GetByProcessorRef(table, processor, ref) ==
    LET Cond(t) == t.processor = processor /\ t.processor_reference = ref
    IN  FirstRow(SelectSeq(table, Cond))

GetByID(table, id) ==
    LET Cond(t) == t.id = id
    IN  FirstRow(SelectSeq(table, Cond))

\* variant: the UPDATE without its WHERE clause
UpdateStatusToSettled_All(table, id, settledAt) ==
    [i \in DOMAIN table |->
        [table[i] EXCEPT !.status = "settled", !.settled_at = <<settledAt>>]]

UpdateStatusToSettled(table, id, settledAt) ==
    [i \in DOMAIN table |->
        IF table[i].id = id
        THEN [table[i] EXCEPT !.status = "settled", !.settled_at = <<settledAt>>]
        ELSE table[i]]

\* variant: captured_at <= cutoff
GetCapturedWithoutSettlement_UpTo(txns, records, cutoff) ==
    LET Cond(t) == /\ t.status = "captured"
                   /\ t.captured_at # <<>>
                   /\ t.captured_at[1] <= cutoff
                   /\ \A i \in DOMAIN records :
                          records[i].wakala_transaction_id # t.id
    IN  SelectSeq(txns, Cond)

\* transactions LEFT JOIN settlement_records ... WHERE sr.id IS NULL
GetCapturedWithoutSettlement(txns, records, cutoff) ==
    LET Cond(t) == /\ t.status = "captured"
                   /\ t.captured_at # <<>>
                   /\ t.captured_at[1] < cutoff
                   /\ \A i \in DOMAIN records :
                          records[i].wakala_transaction_id # t.id
    IN  SelectSeq(txns, Cond)

\* variant: the DELETE deletes nothing
ClearAll_Keep(table) == table

ClearAll(table) == <<>>

----------------------------------------------------------------------------
(* The callers.  A caller is idle, inside a call, or done: the call has    *)
(* returned and its result stands until the caller takes it (Return).      *)

NoCall == [op |-> "none", data |-> "", processor |-> "", format |-> ""]

NoLoc ==
    [hash |-> <<>>, reportID |-> <<>>, records |-> <<>>, batchID |-> "",
     inserted |-> 0, unmatched |-> <<>>, txn |-> <<>>, matched |-> 0,
     cutoff |-> 0, discs |-> <<>>, missing |-> 0, mismatches |-> 0]

NoResult == [err |-> "none"]

\* hist: clean = no other caller took a step since this call began;
\* faulted = a store call of this call failed; again = the bytes had been
\* ingested with success when the call began; parsed = a parser ran;
\* runs = reconciliation runs started; cleared = the rows its ClearAll
\* deleted; emitted = the rows its detectors handed to BulkInsert;
\* relinked = the records it linked that the store already held linked
NoHist ==
    [clean |-> TRUE, faulted |-> FALSE, again |-> FALSE, parsed |-> FALSE,
     runs |-> 0, cleared |-> {}, emitted |-> {}, failing |-> FALSE,
     relinked |-> {}]

Running(q) == pc[q] \notin {"idle", "done"}

\* hist after a step of caller p that leaves p's observations h
Observe(p, h) ==
    [q \in Procs |->
        IF q = p
        THEN [h EXCEPT !.clean = @ /\ \A r \in Procs \ {p} : ~Running(r),
                       !.failing = FALSE]
        ELSE [hist[q] EXCEPT !.clean = @ /\ pc[q] = "idle"]]

\* the store call of the step fails: failing marks the step, not the call
Fault(h) == [h EXCEPT !.faulted = TRUE, !.failing = TRUE]

\* a failing step uses up one of the failures
Charge(h) ==
    IF h.failing THEN faults > 0 /\ faults' = faults - 1
    ELSE UNCHANGED faults

SeedTransactions ==
    << [id |-> "WKL-AFRIPAY-001", processor_reference |-> "R1",
        processor |-> "afripay", currency |-> "KES", usd_amount |-> 1000,
        status |-> "captured", captured_at |-> <<0>>, settled_at |-> <<>>],
       [id |-> "WKL-AFRIPAY-002", processor_reference |-> "R2",
        processor |-> "afripay", currency |-> "KES", usd_amount |-> 35372,
        status |-> "captured", captured_at |-> <<1>>, settled_at |-> <<>>],
       [id |-> "WKL-CAPEPAY-001", processor_reference |-> "R1",
        processor |-> "capepay", currency |-> "ZAR", usd_amount |-> 1000,
        status |-> "authorized", captured_at |-> <<>>, settled_at |-> <<>>],
       [id |-> "WKL-CAPEPAY-002", processor_reference |-> "R8",
        processor |-> "capepay", currency |-> "ZAR", usd_amount |-> 60000,
        status |-> "failed", captured_at |-> <<0>>, settled_at |-> <<>>] >>

\* the server with no call in progress and no discrepancy computed
Start(txns, reports, records, failures) ==
    /\ transactions = txns
    /\ settlement_reports = reports
    /\ settlement_records = records
    /\ discrepancies = <<>>
    /\ now = 49
    /\ nano = 0
    /\ pc = [p \in Procs |-> "idle"]
    /\ call = [p \in Procs |-> NoCall]
    /\ loc = [p \in Procs |-> NoLoc]
    /\ result = [p \in Procs |-> NoResult]
    /\ hist = [p \in Procs |-> NoHist]
    /\ faults = failures
    /\ ingested = {}
    /\ last = <<>>

\* after start-up: the seeded transactions, nothing ingested
Init == Start(SeedTransactions, {}, <<>>, MaxFaults)

----------------------------------------------------------------------------
(* ingestion.Service.IngestReport *)

\* variant: RecordsIngested is the number of parsed records
IngestResult_Parsed(reportID, inserted, parsed, detected, rr) ==
    [err |-> "", report_id |-> reportID, records_ingested |-> parsed,
     duplicates_skipped |-> parsed - inserted,
     discrepancies_detected |-> detected, recon |-> rr]

\* recon is not a field of the Go struct: the outcome of the triggered run
IngestResult(reportID, inserted, parsed, detected, rr) ==
    [err |-> "", report_id |-> reportID, records_ingested |-> inserted,
     duplicates_skipped |-> parsed - inserted,
     discrepancies_detected |-> detected, recon |-> rr]

NoRun == [err |-> "not run"]

IngestError(msg) == [err |-> msg]

\* variant: the default case of the switch runs the AfriPay parser
ParseByFormat_Default(format, data, reportID) ==
    LET Ran(parse) == [unsupported |-> FALSE, parse |-> parse]
    IN  CASE format = "json_b" -> Ran(ParseNairaGatewayJSON(data, reportID))
          [] format = "csv_c" -> Ran(ParseCapePayCSV(data, reportID))
          [] OTHER -> Ran(ParseAfriPayCSV(data, reportID))

\* the switch on format
ParseByFormat(format, data, reportID) ==
    LET Ran(parse) == [unsupported |-> FALSE, parse |-> parse]
    IN  CASE format = "csv_a" -> Ran(ParseAfriPayCSV(data, reportID))
          [] format = "json_b" -> Ran(ParseNairaGatewayJSON(data, reportID))
          [] format = "csv_c" -> Ran(ParseCapePayCSV(data, reportID))
          [] OTHER -> [unsupported |-> TRUE, parse |-> ParseError]

Stored(res) ==
    /\ res.err = ""
    /\ "report_id" \in DOMAIN res
    /\ res.report_id # "already-ingested"

Finish(p, res, h) ==
    /\ pc' = [pc EXCEPT ![p] = "done"]
    /\ result' = [result EXCEPT ![p] = res]
    /\ hist' = Observe(p, h)
    /\ Charge(h)
    /\ ingested' = IF Stored(res) THEN ingested \cup {call[p].data}
                   ELSE ingested

\* the call up to the first store write: digest lookup, dispatch, parse
IngestReport(p, data, processor, format) ==
    LET hash == Sha256Hex(data)
        exists == ReportExistsByHash(settlement_reports, hash)
        reportID == <<"RPT", processor, nano>>
        dispatch == ParseByFormat(format, data, reportID)
        parsed == dispatch.parse
        c == [op |-> "ingest", data |-> data, processor |-> processor,
              format |-> format]
        h == [NoHist EXCEPT !.again = data \in ingested]
    IN  /\ pc[p] = "idle"
        /\ call' = [call EXCEPT ![p] = c]
        /\ UNCHANGED <<stores, now, last>>
        /\ \/ /\ Finish(p, IngestError("check hash"), Fault(h))
              /\ UNCHANGED <<nano, loc>>
           \/ /\ exists
              /\ Finish(p, IngestResult("already-ingested", 0, 0, 0, NoRun), h)
              /\ UNCHANGED <<nano, loc>>
           \/ /\ ~exists
              /\ IF dispatch.unsupported
                 THEN /\ Finish(p, IngestError("unsupported format"), h)
                      /\ UNCHANGED <<nano, loc>>
                 ELSE IF parsed.err
                 THEN /\ Finish(p, IngestError("parse"),
                                [h EXCEPT !.parsed = TRUE])
                      /\ UNCHANGED <<nano, loc>>
                 ELSE /\ nano < MaxIngests
                      /\ nano' = nano + 1
                      /\ pc' = [pc EXCEPT ![p] = "insert_report"]
                      /\ loc' = [loc EXCEPT ![p] =
                            [NoLoc EXCEPT
                               !.hash = hash, !.reportID = reportID,
                               !.records = parsed.records,
                               !.batchID = IF parsed.batchID = ""
                                           THEN "BATCH-nano"
                                           ELSE parsed.batchID]]
                      /\ hist' = Observe(p, [h EXCEPT !.parsed = TRUE])
                      /\ UNCHANGED <<result, faults, ingested>>

\* settlementRepo.InsertReport(report)
StoreReport(p) ==
    LET l == loc[p]
        report == [id |-> l.reportID, processor |-> call[p].processor,
                   batch_id |-> l.batchID, file_hash |-> l.hash,
                   record_count |-> Len(l.records)]
        ins == InsertReport(settlement_reports, report)
    IN  /\ pc[p] = "insert_report"
        /\ UNCHANGED <<transactions, settlement_records, discrepancies,
                       now, nano, call, loc>>
        /\ \/ /\ Finish(p, IngestError("insert report"), Fault(hist[p]))
              /\ UNCHANGED <<settlement_reports, last>>
           \/ /\ ins.err
              /\ Finish(p, IngestError("insert report"), hist[p])
              /\ UNCHANGED <<settlement_reports, last>>
           \/ /\ ~ins.err
              /\ settlement_reports' = ins.reports
              /\ pc' = [pc EXCEPT ![p] = "insert_records"]
              /\ hist' = Observe(p, hist[p])
              /\ last' = <<>>
              /\ UNCHANGED <<result, faults, ingested>>

----------------------------------------------------------------------------
(* reconciliation.Service *)

settlementWindowHours == 48

\* variant: the total leaves the orphaned settlements out
ReconciliationResult_NoOrphans(matched, missing, mismatches, orphaned) ==
    [err |-> "", MatchedCount |-> matched, MissingSettlements |-> missing,
     AmountMismatches |-> mismatches, OrphanedSettlements |-> orphaned,
     TotalDiscrepancies |-> missing + mismatches]

ReconciliationResult(matched, missing, mismatches, orphaned) ==
    [err |-> "", MatchedCount |-> matched, MissingSettlements |-> missing,
     AmountMismatches |-> mismatches, OrphanedSettlements |-> orphaned,
     TotalDiscrepancies |-> missing + mismatches + orphaned]

ReconError(msg) == [err |-> msg]

\* variant: IngestReport returns the error of the run
RunReturn_Fatal(p, op, rr, h) ==
    IF op = "recon"
    THEN Finish(p, rr, h)
    ELSE IF rr.err # ""
    THEN Finish(p, IngestError("reconciliation"), h)
    ELSE Finish(p, IngestResult(loc[p].reportID, loc[p].inserted,
                                Len(loc[p].records), rr.TotalDiscrepancies,
                                rr), h)

\* the end of RunFullReconciliation: back in IngestReport when it called
RunReturn(p, op, rr, h) ==
    IF op = "recon"
    THEN Finish(p, rr, h)
    ELSE Finish(p, IngestResult(loc[p].reportID, loc[p].inserted,
                                Len(loc[p].records),
                                IF rr.err = "" THEN rr.TotalDiscrepancies
                                ELSE 0, rr), h)

ReconReturn(p, rr, h) == RunReturn(p, call[p].op, rr, h)

\* a step inside the call that neither returns nor fails
Goto(p, label, l, h) ==
    /\ pc' = [pc EXCEPT ![p] = label]
    /\ loc' = [loc EXCEPT ![p] = l]
    /\ hist' = Observe(p, h)
    /\ Charge(h)
    /\ UNCHANGED <<result, ingested>>

\* variant: the call returns after InsertRecords without a run
StoreRecords_NoRun(p) ==
    LET ins == InsertRecords(settlement_records, loc[p].records)
    IN  /\ pc[p] = "insert_records"
        /\ UNCHANGED <<transactions, settlement_reports, discrepancies,
                       now, nano, call>>
        /\ \/ /\ Finish(p, IngestError("insert records"), Fault(hist[p]))
              /\ UNCHANGED <<settlement_records, loc, last>>
           \/ /\ settlement_records' = ins.table
              /\ last' = <<>>
              /\ Finish(p, IngestResult(loc[p].reportID, ins.inserted,
                                        Len(loc[p].records), 0, NoRun),
                        hist[p])
              /\ UNCHANGED loc

\* settlementRepo.InsertRecords(records), then the run is triggered
StoreRecords(p) ==
    LET ins == InsertRecords(settlement_records, loc[p].records)
    IN  /\ pc[p] = "insert_records"
        /\ UNCHANGED <<transactions, settlement_reports, discrepancies,
                       now, nano, call>>
        /\ \/ /\ Finish(p, IngestError("insert records"), Fault(hist[p]))
              /\ UNCHANGED <<settlement_records, loc, last>>
           \/ /\ settlement_records' = ins.table
              /\ last' = <<>>
              /\ Goto(p, "clear", [loc[p] EXCEPT !.inserted = ins.inserted],
                      [hist[p] EXCEPT !.runs = @ + 1])

\* discRepo.ClearAll(), the first step of RunFullReconciliation
ClearStep(p, op, h) ==
    /\ UNCHANGED <<transactions, settlement_reports, settlement_records,
                   now, nano, last>>
    /\ \/ /\ RunReturn(p, op, ReconError("clear discrepancies"), Fault(h))
          /\ UNCHANGED <<discrepancies, loc>>
       \/ /\ discrepancies' = ClearAll(discrepancies)
          /\ Goto(p, "get_unmatched", loc[p],
                  [h EXCEPT !.cleared = Range(discrepancies)])

\* RunFullReconciliation called by IngestReport
Clear(p) ==
    /\ pc[p] = "clear"
    /\ UNCHANGED call
    /\ ClearStep(p, "ingest", hist[p])

\* RunFullReconciliation called on its own
RunFullReconciliation(p) ==
    /\ pc[p] = "idle"
    /\ call' = [call EXCEPT ![p] = [NoCall EXCEPT !.op = "recon"]]
    /\ ClearStep(p, "recon", [NoHist EXCEPT !.runs = 1])

\* variant: the run goes from the match step to the mismatch detector
MatchPc_SkipMissing(unmatched) ==
    IF unmatched = <<>> THEN "detect_mismatches" ELSE "match"

MatchPc(unmatched) == IF unmatched = <<>> THEN "detect_missing" ELSE "match"

\* MatchSettlements: settRepo.GetUnmatchedRecords()
MatchQuery(p) ==
    LET unmatched == GetUnmatchedRecords(settlement_records)
    IN  /\ pc[p] = "get_unmatched"
        /\ UNCHANGED <<stores, now, nano, call, last>>
        /\ \/ /\ ReconReturn(p, ReconError("match settlements"), Fault(hist[p]))
              /\ UNCHANGED loc
           \/ Goto(p, MatchPc(unmatched),
                   [loc[p] EXCEPT !.unmatched = unmatched, !.matched = 0],
                   hist[p])

\* MatchSettlements, one record: GetByProcessorRef, UpdateWakalaTransactionID
MatchLink(p) ==
    LET rec == Head(loc[p].unmatched)
        rest == Tail(loc[p].unmatched)
        txn == GetByProcessorRef(transactions, rec.processor,
                                 rec.processor_transaction_id)
        skip == [loc[p] EXCEPT !.unmatched = rest]
    IN  /\ pc[p] = "match"
        /\ UNCHANGED <<transactions, settlement_reports, discrepancies,
                       now, nano, call, last>>
        /\ \/ /\ Goto(p, MatchPc(rest), skip, Fault(hist[p]))
              /\ UNCHANGED settlement_records
           \/ /\ txn = <<>>
              /\ Goto(p, MatchPc(rest), skip, hist[p])
              /\ UNCHANGED settlement_records
           \/ /\ txn # <<>>
              /\ settlement_records' =
                     UpdateWakalaTransactionID(settlement_records, rec.id,
                                               txn[1].id)
              /\ Goto(p, "match_status", [loc[p] EXCEPT !.txn = txn],
                      [hist[p] EXCEPT !.relinked =
                          @ \cup {r.id : r \in
                                    {x \in Range(settlement_records) :
                                        x.id = rec.id /\ IsMatched(x)}}])

\* variant: a record whose status update failed is not counted
MatchSettle_CountSettled(p) ==
    LET rec == Head(loc[p].unmatched)
        rest == Tail(loc[p].unmatched)
        l == [loc[p] EXCEPT !.unmatched = rest, !.txn = <<>>]
    IN  /\ pc[p] = "match_status"
        /\ UNCHANGED <<settlement_reports, settlement_records, discrepancies,
                       now, nano, call, last>>
        /\ \/ /\ Goto(p, MatchPc(rest), l, Fault(hist[p]))
              /\ UNCHANGED transactions
           \/ /\ transactions' =
                     UpdateStatusToSettled(transactions, loc[p].txn[1].id,
                                           rec.settlement_date)
              /\ Goto(p, MatchPc(rest), [l EXCEPT !.matched = @ + 1],
                      hist[p])

\* MatchSettlements, the same record: UpdateStatusToSettled, matched++
MatchSettle(p) ==
    LET rec == Head(loc[p].unmatched)
        rest == Tail(loc[p].unmatched)
        l == [loc[p] EXCEPT !.unmatched = rest, !.txn = <<>>,
                            !.matched = @ + 1]
    IN  /\ pc[p] = "match_status"
        /\ UNCHANGED <<settlement_reports, settlement_records, discrepancies,
                       now, nano, call, last>>
        /\ \/ /\ Goto(p, MatchPc(rest), l, Fault(hist[p]))
              /\ UNCHANGED transactions
           \/ /\ transactions' =
                     UpdateStatusToSettled(transactions, loc[p].txn[1].id,
                                           rec.settlement_date)
              /\ Goto(p, MatchPc(rest), l, hist[p])

\* variant: the thresholds are reached at 500 and 100
severityByAmount_AtLeast(usdAmount) ==
    IF usdAmount >= 50000 THEN "HIGH"
    ELSE IF usdAmount >= 10000 THEN "MEDIUM"
    ELSE "LOW"

severityByAmount(usdAmount) ==
    IF usdAmount > 50000 THEN "HIGH"
    ELSE IF usdAmount > 10000 THEN "MEDIUM"
    ELSE "LOW"

\* num / den > a / b as float64 division decides it (b > 0, num >= 0):
\* a zero divisor gives +Inf (NaN for 0 / 0), a negative one a negative ratio
RatioGT(num, den, a, b) ==
    IF den > 0 THEN num * b > a * den
    ELSE IF den = 0 THEN num > 0
    ELSE FALSE

\* variant: the relative threshold is looked at first
mismatchSeverity_RelativeFirst(pctDiff, absDiff) ==
    IF RatioGT(pctDiff[1], pctDiff[2], 2, 100) THEN "HIGH"
    ELSE IF absDiff > 50000 THEN "CRITICAL"
    ELSE "MEDIUM"

\* variant: absDiff >= 500
mismatchSeverity_AtLeast(pctDiff, absDiff) ==
    IF absDiff >= 50000 THEN "CRITICAL"
    ELSE IF RatioGT(pctDiff[1], pctDiff[2], 2, 100) THEN "HIGH"
    ELSE "MEDIUM"

\* pctDiff is the pair <<absDiff, txn.USDAmount>> of the division that made it
mismatchSeverity(pctDiff, absDiff) ==
    IF absDiff > 50000 THEN "CRITICAL"
    ELSE IF RatioGT(pctDiff[1], pctDiff[2], 2, 100) THEN "HIGH"
    ELSE "MEDIUM"

Abs(x) == IF x < 0 THEN -x ELSE x

\* variant: the difference is actual - expected
MissingDiscrepancy_Signed(txn) ==
    [id |-> <<"DISC-MS", txn.id>>, type |-> "MISSING_SETTLEMENT",
     transaction_id |-> txn.id, settlement_id |-> NULL,
     processor |-> txn.processor, expected_usd |-> txn.usd_amount,
     actual_usd |-> 0, difference_usd |-> 0 - txn.usd_amount,
     currency |-> txn.currency, severity |-> severityByAmount(txn.usd_amount)]

MissingDiscrepancy(txn) ==
    [id |-> <<"DISC-MS", txn.id>>, type |-> "MISSING_SETTLEMENT",
     transaction_id |-> txn.id, settlement_id |-> NULL,
     processor |-> txn.processor, expected_usd |-> txn.usd_amount,
     actual_usd |-> 0, difference_usd |-> txn.usd_amount,
     currency |-> txn.currency, severity |-> severityByAmount(txn.usd_amount)]

\* variant: either tolerance exceeded is enough
IsMismatch_Either(rec, txn) ==
    LET absDiff == Abs(rec.usd_gross_amount - txn.usd_amount)
    IN  \/ ~(txn.usd_amount > 0 /\ absDiff * 1000 <= 5 * txn.usd_amount)
        \/ ~(absDiff < 10)

\* the two tolerance gates of DetectAmountMismatches
\* variant: the net amount is compared
IsMismatch_Net(rec, txn) ==
    LET absDiff == Abs(rec.usd_net_amount - txn.usd_amount)
    IN  /\ ~(txn.usd_amount > 0 /\ absDiff * 1000 <= 5 * txn.usd_amount)
        /\ ~(absDiff < 10)

IsMismatch(rec, txn) ==
    LET absDiff == Abs(rec.usd_gross_amount - txn.usd_amount)
    IN  /\ ~(txn.usd_amount > 0 /\ absDiff * 1000 <= 5 * txn.usd_amount)
        /\ ~(absDiff < 10)

MismatchDiscrepancy(rec, txn) ==
    LET diff == rec.usd_gross_amount - txn.usd_amount
        absDiff == Abs(diff)
        pctDiff == <<absDiff, txn.usd_amount>>
    IN  [id |-> <<"DISC-AM", rec.id>>, type |-> "AMOUNT_MISMATCH",
         transaction_id |-> txn.id, settlement_id |-> rec.id,
         processor |-> rec.processor, expected_usd |-> txn.usd_amount,
         actual_usd |-> rec.usd_gross_amount, difference_usd |-> diff,
         currency |-> rec.currency,
         severity |-> mismatchSeverity(pctDiff, absDiff)]

\* variant: the gross amount is reported
OrphanedDiscrepancy_Gross(rec) ==
    [id |-> <<"DISC-OS", rec.id>>, type |-> "ORPHANED_SETTLEMENT",
     transaction_id |-> NULL, settlement_id |-> rec.id,
     processor |-> rec.processor, expected_usd |-> 0,
     actual_usd |-> rec.usd_gross_amount,
     difference_usd |-> rec.usd_gross_amount,
     currency |-> rec.currency, severity |-> "HIGH"]

\* variant: the id is built from the reference of the record
OrphanedDiscrepancy_PerReference(rec) ==
    [id |-> <<"DISC-OS", rec.processor_transaction_id>>,
     type |-> "ORPHANED_SETTLEMENT",
     transaction_id |-> NULL, settlement_id |-> rec.id,
     processor |-> rec.processor, expected_usd |-> 0,
     actual_usd |-> rec.usd_net_amount, difference_usd |-> rec.usd_net_amount,
     currency |-> rec.currency, severity |-> "HIGH"]

OrphanedDiscrepancy(rec) ==
    [id |-> <<"DISC-OS", rec.id>>, type |-> "ORPHANED_SETTLEMENT",
     transaction_id |-> NULL, settlement_id |-> rec.id,
     processor |-> rec.processor, expected_usd |-> 0,
     actual_usd |-> rec.usd_net_amount, difference_usd |-> rec.usd_net_amount,
     currency |-> rec.currency, severity |-> "HIGH"]

\* the rows a detector found are inserted, or there are none and it returns 0
Detected(p, discs, insertPc, nextPc, l, h) ==
    IF discs # <<>>
    THEN Goto(p, insertPc, [l EXCEPT !.discs = discs], h)
    ELSE Goto(p, nextPc, l, h)

\* DetectMissingSettlements up to the insert
DetectMissingSettlements(p) ==
    LET cutoff == now - settlementWindowHours
        txns == GetCapturedWithoutSettlement(transactions, settlement_records,
                                             cutoff)
        discs == [i \in DOMAIN txns |-> MissingDiscrepancy(txns[i])]
    IN  /\ pc[p] = "detect_missing"
        /\ UNCHANGED <<stores, now, nano, call, last>>
        /\ \/ /\ ReconReturn(p, ReconError("detect missing"), Fault(hist[p]))
              /\ UNCHANGED loc
           \/ Detected(p, discs, "insert_missing", "detect_mismatches",
                       [loc[p] EXCEPT !.cutoff = cutoff, !.missing = 0],
                       hist[p])

\* DetectAmountMismatches up to the insert; failed = the records whose
\* GetByID lookup failed
DetectAmountMismatches(p) ==
    LET matched == GetMatchedRecords(settlement_records)
        Txn(rec) == GetByID(transactions, rec.wakala_transaction_id)
    IN  /\ pc[p] = "detect_mismatches"
        /\ UNCHANGED <<stores, now, nano, call, last>>
        /\ \/ /\ ReconReturn(p, ReconError("detect mismatches"),
                             Fault(hist[p]))
              /\ UNCHANGED loc
           \/ \E failed \in SUBSET Ids(matched) :
                LET Emits(rec) == /\ rec.id \notin failed
                                  /\ Txn(rec) # <<>>
                                  /\ IsMismatch(rec, Txn(rec)[1])
                    hits == SelectSeq(matched, Emits)
                    discs == [i \in DOMAIN hits |->
                                 MismatchDiscrepancy(hits[i], Txn(hits[i])[1])]
                IN  Detected(p, discs, "insert_mismatches", "detect_orphaned",
                             [loc[p] EXCEPT !.mismatches = 0],
                             IF failed = {} THEN hist[p] ELSE Fault(hist[p]))

Completed(p, orphaned) ==
    ReconciliationResult(loc[p].matched, loc[p].missing, loc[p].mismatches,
                         orphaned)

\* variant: a failed query undoes the discrepancies the run has written
DetectOrphanedSettlements_Rollback(p) ==
    LET unmatched == GetUnmatchedRecords(settlement_records)
        discs == [i \in DOMAIN unmatched |->
                     OrphanedDiscrepancy(unmatched[i])]
    IN  /\ pc[p] = "detect_orphaned"
        /\ UNCHANGED <<transactions, settlement_reports, settlement_records,
                       now, nano, call, last>>
        /\ \/ /\ ReconReturn(p, ReconError("detect orphaned"), Fault(hist[p]))
              /\ discrepancies' = <<>>
              /\ UNCHANGED loc
           \/ /\ discs # <<>>
              /\ Goto(p, "insert_orphaned", [loc[p] EXCEPT !.discs = discs],
                      hist[p])
              /\ UNCHANGED discrepancies
           \/ /\ discs = <<>>
              /\ ReconReturn(p, Completed(p, 0), hist[p])
              /\ UNCHANGED <<loc, discrepancies>>

\* DetectOrphanedSettlements up to the insert
DetectOrphanedSettlements(p) ==
    LET unmatched == GetUnmatchedRecords(settlement_records)
        discs == [i \in DOMAIN unmatched |->
                     OrphanedDiscrepancy(unmatched[i])]
    IN  /\ pc[p] = "detect_orphaned"
        /\ UNCHANGED <<stores, now, nano, call, last>>
        /\ \/ /\ ReconReturn(p, ReconError("detect orphaned"), Fault(hist[p]))
              /\ UNCHANGED loc
           \/ /\ discs # <<>>
              /\ Goto(p, "insert_orphaned", [loc[p] EXCEPT !.discs = discs],
                      hist[p])
           \/ /\ discs = <<>>
              /\ ReconReturn(p, Completed(p, 0), hist[p])
              /\ UNCHANGED loc

\* discRepo.BulkInsert(discs) of a detector and the detector's return
InsertDiscrepancies(p) ==
    LET ins == BulkInsert(discrepancies, loc[p].discs)
        h == [hist[p] EXCEPT !.emitted = @ \cup Range(loc[p].discs)]
        l == [loc[p] EXCEPT !.discs = <<>>]
    IN  /\ pc[p] \in {"insert_missing", "insert_mismatches", "insert_orphaned"}
        /\ UNCHANGED <<transactions, settlement_reports, settlement_records,
                       now, nano, call, last>>
        /\ \/ /\ ReconReturn(p, ReconError(pc[p]), Fault(hist[p]))
              /\ UNCHANGED <<discrepancies, loc>>
           \/ /\ discrepancies' = ins.table
              /\ CASE pc[p] = "insert_missing" ->
                        Goto(p, "detect_mismatches",
                             [l EXCEPT !.missing = ins.inserted], h)
                   [] pc[p] = "insert_mismatches" ->
                        Goto(p, "detect_orphaned",
                             [l EXCEPT !.mismatches = ins.inserted], h)
                   [] pc[p] = "insert_orphaned" ->
                        /\ ReconReturn(p, Completed(p, ins.inserted), h)
                        /\ loc' = [loc EXCEPT ![p] = l]

\* the outcome of the run of a finished call
RunResult(p) ==
    IF call[p].op = "recon" THEN result[p]
    ELSE IF Stored(result[p]) THEN result[p].recon
    ELSE NoRun

\* the run of the finished call went through, alone and without a failure
Undisturbed(p) ==
    /\ pc[p] = "done"
    /\ RunResult(p).err = ""
    /\ hist[p].clean
    /\ ~hist[p].faulted

Snapshot(p) ==
    [discs |-> Range(discrepancies), records |-> settlement_records,
     txns |-> transactions, cutoff |-> loc[p].cutoff]

\* the caller takes the result
Return(p) ==
    /\ pc[p] = "done"
    /\ pc' = [pc EXCEPT ![p] = "idle"]
    /\ call' = [call EXCEPT ![p] = NoCall]
    /\ loc' = [loc EXCEPT ![p] = NoLoc]
    /\ result' = [result EXCEPT ![p] = NoResult]
    /\ hist' = [hist EXCEPT ![p] = NoHist]
    /\ last' = IF hist[p].runs = 0 THEN last
               ELSE IF Undisturbed(p) THEN Snapshot(p)
               ELSE <<>>
    /\ UNCHANGED <<stores, now, nano, faults, ingested>>

\* time passes
Tick ==
    /\ \A p \in Procs : pc[p] = "idle"
    /\ now < MaxClock
    /\ now' = now + 1
    /\ UNCHANGED <<stores, nano, pc, call, loc, result, hist, faults,
                   ingested, last>>

Step(p) ==
         \/ \E r \in Requests : IngestReport(p, r[1], r[2], r[3])
         \/ StoreReport(p)
         \/ StoreRecords(p)
         \/ Clear(p)
         \/ RunFullReconciliation(p)
         \/ MatchQuery(p)
         \/ MatchLink(p)
         \/ MatchSettle(p)
         \/ DetectMissingSettlements(p)
         \/ DetectAmountMismatches(p)
         \/ DetectOrphanedSettlements(p)
         \/ InsertDiscrepancies(p)
         \/ Return(p)

\* calls are served one after the other
Next == Step(1) \/ Tick

Spec == Init /\ [][Next]_vars

----------------------------------------------------------------------------
(* Two HTTP requests served at once: the store calls of two IngestReport   *)
(* calls interleave.  No store call fails and the clock stands still.      *)

OverlapFiles == {"A1", "A2"}

InitOverlap == Start(SeedTransactions, {}, <<>>, 0)

NextOverlap ==
    \E p \in Procs :
       \/ \E data \in OverlapFiles : IngestReport(p, data, "afripay", "csv_a")
       \/ StoreReport(p)
       \/ StoreRecords(p)
       \/ Clear(p)
       \/ MatchQuery(p)
       \/ MatchLink(p)
       \/ MatchSettle(p)
       \/ DetectMissingSettlements(p)
       \/ DetectAmountMismatches(p)
       \/ DetectOrphanedSettlements(p)
       \/ InsertDiscrepancies(p)
       \/ Return(p)

SpecOverlap == InitOverlap /\ [][NextOverlap]_vars

----------------------------------------------------------------------------
(* One caller sends the files of special shape; no store call fails. *)

InitFiles == Start(SeedTransactions, {}, <<>>, 0)

NextFiles ==
    \/ \E r \in FileRequests : IngestReport(1, r[1], r[2], r[3])
    \/ StoreReport(1)
    \/ StoreRecords(1)
    \/ Clear(1)
    \/ MatchQuery(1)
    \/ MatchLink(1)
    \/ MatchSettle(1)
    \/ DetectMissingSettlements(1)
    \/ DetectAmountMismatches(1)
    \/ DetectOrphanedSettlements(1)
    \/ InsertDiscrepancies(1)
    \/ Return(1)

SpecFiles == InitFiles /\ [][NextFiles]_vars

----------------------------------------------------------------------------
(* Two callers run RunFullReconciliation on a store that holds the report  *)
(* A1, not yet matched; their store calls interleave; no store call fails. *)

RaceReport ==
    [id |-> <<"RPT", "afripay", 0>>, processor |-> "afripay",
     batch_id |-> "B1", file_hash |-> Sha256Hex("A1"), record_count |-> 2]

InitRace ==
    Start(SeedTransactions, {RaceReport},
          ParseAfriPayCSV("A1", RaceReport.id).records, 0)

NextRace ==
    \E p \in Procs :
       \/ RunFullReconciliation(p)
       \/ MatchQuery(p)
       \/ MatchLink(p)
       \/ MatchSettle(p)
       \/ DetectMissingSettlements(p)
       \/ DetectAmountMismatches(p)
       \/ DetectOrphanedSettlements(p)
       \/ InsertDiscrepancies(p)
       \/ Return(p)

SpecRace == InitRace /\ [][NextRace]_vars

----------------------------------------------------------------------------
(* The amount comparison on its own: one captured transaction worth X and  *)
(* one stored, still unmatched settlement record worth Y = X + d, in cents, *)
(* with X and d drawn from the values around the thresholds.  Runs follow   *)
(* one another; no store call fails.                                        *)

ExpectedAmounts == {1000, 2000, 10000, 100000, 2380905, 2500000, 2631526}

Differences ==
    {0, 9, 10, 11, 50, 51, 200, 201, 49999, 50000, 50001,
     -9, -10, -11, -50, -51, -200, -201, -49999, -50000, -50001}

CapturedTransaction(x) ==
    [id |-> "WKL-AFRIPAY-001", processor_reference |-> "R1",
     processor |-> "afripay", currency |-> "KES", usd_amount |-> x,
     status |-> "captured", captured_at |-> <<0>>, settled_at |-> <<>>]

StoredReport ==
    [id |-> <<"RPT", "afripay", 0>>, processor |-> "afripay",
     batch_id |-> "B1", file_hash |-> Sha256Hex("A0"), record_count |-> 1]

StoredRecord(y) ==
    SettlementRecord(<<"SR-AP", "R1", 2>>, StoredReport.id, "afripay",
                     Row("R1", (y \div 10) * 1295, 0, (y \div 10) * 1295, 24),
                     "KES", y, y)

InitAmounts ==
    \E x \in ExpectedAmounts, d \in Differences :
        /\ x + d >= 0
        /\ Start(<<CapturedTransaction(x)>>, {StoredReport},
                 <<StoredRecord(x + d)>>, 0)

NextAmounts ==
    \/ RunFullReconciliation(1)
    \/ MatchQuery(1)
    \/ MatchLink(1)
    \/ MatchSettle(1)
    \/ DetectMissingSettlements(1)
    \/ DetectAmountMismatches(1)
    \/ DetectOrphanedSettlements(1)
    \/ InsertDiscrepancies(1)
    \/ Return(1)

SpecAmounts == InitAmounts /\ [][NextAmounts]_vars

----------------------------------------------------------------------------
(* The severity of a missing settlement on its own: two captured, overdue  *)
(* transactions worth amounts drawn from the values around the thresholds,  *)
(* and no settlement record.  Runs follow one another; no store call fails. *)

MissingAmounts ==
    {0, 1, 9999, 10000, 10001, 30000, 49999, 50000, 50001, 100000}

OverdueTransaction(id, ref, x) ==
    [CapturedTransaction(x) EXCEPT !.id = id, !.processor_reference = ref]

InitSeverity ==
    \E x1, x2 \in MissingAmounts :
        Start(<<OverdueTransaction("WKL-AFRIPAY-001", "R1", x1),
                OverdueTransaction("WKL-AFRIPAY-002", "R2", x2)>>, {}, <<>>, 0)

NextSeverity ==
    \/ RunFullReconciliation(1)
    \/ MatchQuery(1)
    \/ DetectMissingSettlements(1)
    \/ DetectAmountMismatches(1)
    \/ DetectOrphanedSettlements(1)
    \/ InsertDiscrepancies(1)
    \/ Return(1)

SpecSeverity == InitSeverity /\ [][NextSeverity]_vars

----------------------------------------------------------------------------
(* Properties of ingestion *)

AlreadyIngested ==
    [err |-> "", report_id |-> "already-ingested", records_ingested |-> 0,
     duplicates_skipped |-> 0, discrepancies_detected |-> 0, recon |-> NoRun]

\* the IngestReport call of caller p has returned and no store call failed
IngestDone(p) ==
    /\ pc[p] = "done"
    /\ call[p].op = "ingest"
    /\ ~hist[p].faulted

\* C1: an IngestReport call that is handed bytes whose earlier ingestion
\* succeeded returns the report id "already-ingested" with zero records
\* ingested, zero duplicates skipped and zero discrepancies detected,
\* whatever processor tag and format tag come with the bytes (the digest
\* lookup itself not failing).
C1_Idempotence ==
    \A p \in Procs :
        (IngestDone(p) /\ hist[p].again) => result[p] = AlreadyIngested

\* the bytes were stored under another processor tag and the format tag of
\* the second call is one the service does not know
C1_Witness ==
    \E p \in Procs :
        /\ IngestDone(p) /\ hist[p].again
        /\ call[p].format = "xml"
        /\ \E r \in settlement_reports :
              /\ r.file_hash = Sha256Hex(call[p].data)
              /\ r.processor # call[p].processor

\* C2: re-ingestion of bytes already ingested is a no-op: the call is over
\* after the digest lookup, the four stores are as they were, no parser ran
\* and no reconciliation run was started.
C2_ReingestNoOp ==
    [][\A p \in Procs :
          (/\ pc[p] = "idle"
           /\ call'[p].op = "ingest"
           /\ call'[p].data \in ingested
           /\ ~hist'[p].faulted)
          => (/\ stores' = stores
              /\ pc'[p] = "done"
              /\ ~hist'[p].parsed
              /\ hist'[p].runs = 0)]_vars

\* a re-ingestion has returned on stores that hold records and discrepancies
C2_Witness ==
    \E p \in Procs :
        /\ IngestDone(p) /\ hist[p].again
        /\ hist[p].runs = 0 /\ ~hist[p].parsed
        /\ settlement_records # <<>>
        /\ discrepancies # <<>>

\* C3: in every reachable state, two overlapping ingests of the same bytes
\* included, no two settlement reports have the same digest.
C3_OneReportPerDigest ==
    \A r1, r2 \in settlement_reports :
        r1.file_hash = r2.file_hash => r1 = r2

\* two calls parsed the same bytes, both past the digest lookup: the report
\* of the one is stored and the insert of the other was refused
C3_Witness ==
    \E p, q \in Procs :
        /\ p # q
        /\ pc[p] = "done" /\ result[p].err = "insert report"
        /\ hist[q].parsed /\ call[q].data = call[p].data
        /\ \E r \in settlement_reports :
              r.id = loc[q].reportID /\ r.file_hash = loc[p].hash

----------------------------------------------------------------------------
(* Properties of reconciliation *)

\* C4: matching is sticky: a record whose wakala_transaction_id is set keeps
\* its place, its id and that link through every step (a MatchSettlements
\* pass, a full run, an ingestion that sends the same record id again), so
\* a link is only ever written to a record that was unmatched.
C4_StickyMatch ==
    [][\A i \in DOMAIN settlement_records :
          /\ i \in DOMAIN settlement_records'
          /\ settlement_records'[i].id = settlement_records[i].id
          /\ IsMatched(settlement_records[i]) =>
                 settlement_records'[i].wakala_transaction_id
                     = settlement_records[i].wakala_transaction_id]_vars

\* an ingestion sent the id of a matched record again and a run followed
C4_Witness ==
    \E p \in Procs :
        /\ IngestDone(p) /\ Stored(result[p])
        /\ result[p].duplicates_skipped > 0
        /\ result[p].recon.err = ""
        /\ \E i \in DOMAIN settlement_records :
              /\ IsMatched(settlement_records[i])
              /\ settlement_records[i].id \in Ids(loc[p].records)
              /\ settlement_records[i].report_id # loc[p].reportID

\* the discrepancies of the transactions and records as they stand
Overdue(txns, records, cutoff) ==
    {t \in Range(txns) :
        /\ t.status = "captured"
        /\ t.captured_at # <<>> /\ t.captured_at[1] < cutoff
        /\ \A r \in Range(records) : r.wakala_transaction_id # t.id}

Owner(txns, rec) == CHOOSE t \in Range(txns) : t.id = rec.wakala_transaction_id

Expected(txns, records, cutoff) ==
    {MissingDiscrepancy(t) : t \in Overdue(txns, records, cutoff)}
    \cup {MismatchDiscrepancy(r, Owner(txns, r)) :
             r \in {x \in Range(records) :
                       /\ IsMatched(x)
                       /\ \E t \in Range(txns) : t.id = x.wakala_transaction_id
                       /\ IsMismatch(x, Owner(txns, x))}}
    \cup {OrphanedDiscrepancy(r) : r \in {x \in Range(records) : IsUnmatched(x)}}

\* the run of the finished call of p returned without error, on its own
RunDone(p) ==
    /\ pc[p] = "done"
    /\ RunResult(p).err = ""
    /\ hist[p].clean

\* C5: after a successful RunFullReconciliation that no other call
\* overlapped, the discrepancy store holds exactly the discrepancies this
\* run computed, each once: no row of an earlier run is left unless this
\* run computed it again.  With no store call failed, these are the
\* discrepancies of the transactions and settlement records as they stand.
C5_FullRebuild ==
    \A p \in Procs :
        RunDone(p) =>
            /\ Range(discrepancies) = hist[p].emitted
            /\ Cardinality(Range(discrepancies)) = Len(discrepancies)
            /\ ~hist[p].faulted =>
                   Range(discrepancies) =
                       Expected(transactions, settlement_records, loc[p].cutoff)

\* the run deleted a row of an earlier run and did not compute it again
C5_Witness ==
    \E p \in Procs :
        /\ RunDone(p) /\ ~hist[p].faulted
        /\ discrepancies # <<>>
        /\ \E d \in hist[p].cleared : d \notin Range(discrepancies)

C7_Conservation ==
    \A p \in Procs :
        (pc[p] = "done" /\ RunResult(p).err = "") =>
            RunResult(p).TotalDiscrepancies =
                RunResult(p).MissingSettlements
                + RunResult(p).AmountMismatches
                + RunResult(p).OrphanedSettlements

\* a run that counted discrepancies of each type
C7_Witness ==
    \E p \in Procs :
        /\ pc[p] = "done" /\ RunResult(p).err = ""
        /\ RunResult(p).MissingSettlements > 0
        /\ RunResult(p).AmountMismatches > 0
        /\ RunResult(p).OrphanedSettlements > 0

\* the AMOUNT_MISMATCH rows of a settlement record
Mismatches(rec) ==
    {d \in Range(discrepancies) :
        d.type = "AMOUNT_MISMATCH" /\ d.settlement_id = rec.id}

C9_MismatchSeverity ==
    \A d \in Range(discrepancies) :
        (d.type = "AMOUNT_MISMATCH" /\ d.expected_usd > 0) =>
            d.severity =
                IF Abs(d.difference_usd) > 50000 THEN "CRITICAL"
                ELSE IF Abs(d.difference_usd) * 100 > 2 * d.expected_usd
                THEN "HIGH"
                ELSE "MEDIUM"

\* a difference of 499.99 on 23,809.05 (2.1%) was stored as HIGH
C9_Witness ==
    \E d \in Range(discrepancies) :
        /\ d.type = "AMOUNT_MISMATCH"
        /\ Abs(d.difference_usd) = 49999
        /\ d.expected_usd = 2380905
        /\ d.severity = "HIGH"

\* C10 as stated: a mismatch whose absolute difference is exactly 500.00 is
\* CRITICAL.
C10_AtFiveHundredCritical ==
    \A d \in Range(discrepancies) :
        (d.type = "AMOUNT_MISMATCH" /\ Abs(d.difference_usd) = 50000) =>
            d.severity = "CRITICAL"

\* C10, amended: a mismatch whose absolute difference is exactly 500.00 is
\* not CRITICAL: it is HIGH if the relative difference is above 2% and
\* MEDIUM otherwise.
C10_AtFiveHundred ==
    \A d \in Range(discrepancies) :
        (/\ d.type = "AMOUNT_MISMATCH"
         /\ Abs(d.difference_usd) = 50000
         /\ d.expected_usd > 0) =>
            d.severity = IF 50000 * 100 > 2 * d.expected_usd THEN "HIGH"
                         ELSE "MEDIUM"

\* a difference of exactly 500.00 on 1,000.00 was stored
C10_Witness ==
    \E d \in Range(discrepancies) :
        /\ d.type = "AMOUNT_MISMATCH"
        /\ d.difference_usd = 50000
        /\ d.expected_usd = 100000

----------------------------------------------------------------------------
(* Properties of the detectors *)

\* DetectMissingSettlements of the run of p has returned without error
PastMissing(p) ==
    /\ hist[p].clean
    /\ \/ pc[p] \in {"detect_mismatches", "insert_mismatches",
                     "detect_orphaned", "insert_orphaned"}
       \/ pc[p] = "done" /\ RunResult(p).err = ""

\* the positions of the MISSING_SETTLEMENT rows of a transaction
MissingRows(txn) ==
    {i \in DOMAIN discrepancies :
        /\ discrepancies[i].type = "MISSING_SETTLEMENT"
        /\ discrepancies[i].transaction_id = txn.id}

IsOverdue(txn) ==
    /\ txn.status = "captured"
    /\ txn.captured_at # <<>>
    /\ txn.captured_at[1] < now - settlementWindowHours
    /\ \A r \in Range(settlement_records) : r.wakala_transaction_id # txn.id

MissingSettlements ==
    {d \in Range(discrepancies) : d.type = "MISSING_SETTLEMENT"}

C13_MissingBoundaries ==
    \A d \in MissingSettlements :
        /\ d.expected_usd = 50001 => d.severity = "HIGH"
        /\ d.expected_usd = 50000 => d.severity = "MEDIUM"
        /\ d.expected_usd = 10000 => d.severity = "MEDIUM"
        /\ d.expected_usd = 9999 => d.severity = "LOW"

\* the positions of the ORPHANED_SETTLEMENT rows of a settlement record
OrphanRows(rec) ==
    {i \in DOMAIN discrepancies :
        /\ discrepancies[i].type = "ORPHANED_SETTLEMENT"
        /\ discrepancies[i].settlement_id = rec.id}

\* C14: after a full run that returned without error, every settlement
\* record that is still unmatched has exactly one ORPHANED_SETTLEMENT row,
\* of severity HIGH, with expected_usd = 0 and actual_usd = the record's
\* usd_net_amount, and no matched record has an ORPHANED_SETTLEMENT row.
C14_OrphanDetection ==
    \A p \in Procs :
        RunDone(p) =>
            \A r \in Range(settlement_records) :
                /\ Cardinality(OrphanRows(r)) = IF IsUnmatched(r) THEN 1 ELSE 0
                /\ \A i \in OrphanRows(r) :
                       /\ discrepancies[i].severity = "HIGH"
                       /\ discrepancies[i].expected_usd = 0
                       /\ discrepancies[i].actual_usd = r.usd_net_amount

\* a run ended with an orphaned record, whose net differs from its gross,
\* next to a matched one
C14_Witness ==
    \E p \in Procs :
        /\ RunDone(p)
        /\ \E r \in Range(settlement_records) :
              /\ OrphanRows(r) # {}
              /\ r.usd_net_amount # r.usd_gross_amount
        /\ \E r \in Range(settlement_records) : IsMatched(r)

\* the transactions with the processor and the processor reference of rec
Known(rec) ==
    {t \in Range(transactions) :
        /\ t.processor = rec.processor
        /\ t.processor_reference = rec.processor_transaction_id}

----------------------------------------------------------------------------
(* Properties of the match step *)

\* caller p takes the step
Moves(p) == pc'[p] # pc[p] \/ loc'[p] # loc[p]

Linked(table, recordID, txnID) ==
    [i \in DOMAIN table |->
        IF table[i].id = recordID
        THEN [table[i] EXCEPT !.wakala_transaction_id = txnID]
        ELSE table[i]]

Settled(table, txnID, date) ==
    [i \in DOMAIN table |->
        IF table[i].id = txnID
        THEN [table[i] EXCEPT !.status = "settled", !.settled_at = <<date>>]
        ELSE table[i]]

\* C16: MatchSettlements goes through every unmatched settlement record
\* and looks a transaction up by the exact pair (processor,
\* processor_reference).  On a hit the link of the record is set to the id
\* of that transaction, and the transaction becomes settled with settled_at
\* = the settlement date of the record.  On a miss the record stays
\* unmatched, the call goes on without error and no transaction changes.
\* (Steps in which no store call fails.)
C16_MatchEffect ==
    [][\A p \in Procs :
          (Moves(p) /\ faults' = faults) =>
              /\ pc[p] = "get_unmatched" =>
                     loc'[p].unmatched =
                         SelectSeq(settlement_records, IsUnmatched)
              /\ pc[p] = "match" =>
                     LET rec == Head(loc[p].unmatched)
                     IN  IF Known(rec) = {}
                         THEN /\ settlement_records' = settlement_records
                              /\ transactions' = transactions
                              /\ pc'[p] \in {"match", "detect_missing"}
                              /\ loc'[p].unmatched = Tail(loc[p].unmatched)
                         ELSE /\ \E t \in Known(rec) :
                                    settlement_records' =
                                        Linked(settlement_records, rec.id, t.id)
                              /\ transactions' = transactions
                              /\ pc'[p] = "match_status"
              /\ pc[p] = "match_status" =>
                     LET rec == Head(loc[p].unmatched)
                     IN  /\ \E t \in Known(rec) :
                               /\ \E r \in Range(settlement_records) :
                                     /\ r.id = rec.id
                                     /\ r.wakala_transaction_id = t.id
                               /\ transactions' =
                                      Settled(transactions, t.id,
                                              rec.settlement_date)
                         /\ settlement_records' = settlement_records
                         /\ loc'[p].unmatched = Tail(loc[p].unmatched)]_vars

\* a match step is over with a hit, whose transaction is settled on the
\* date of the record, and with a miss on a reference that a transaction of
\* another processor carries
C16_Witness ==
    \E p \in Procs :
        /\ pc[p] = "detect_missing" /\ hist[p].clean /\ ~hist[p].faulted
        /\ \E r \in Range(settlement_records), t \in Range(transactions) :
              /\ r.wakala_transaction_id = t.id
              /\ t.status = "settled"
              /\ t.settled_at = <<r.settlement_date>>
        /\ \E r \in Range(settlement_records) :
              /\ IsUnmatched(r)
              /\ Known(r) = {}
              /\ \E t \in Range(transactions) :
                    t.processor_reference = r.processor_transaction_id

\* every settled transaction has a record linked to it, and the date of one
SettledByMatch ==
    \A t \in Range(transactions) :
        /\ t.status = "settled" =>
               \E r \in Range(settlement_records) :
                   /\ r.wakala_transaction_id = t.id
                   /\ t.settled_at = <<r.settlement_date>>
        /\ t.settled_at # <<>> => t.status = "settled"

\* a step that changes a transaction is the status update of a match step
\* whose record is linked to that transaction
OnlyMatchSettles ==
    transactions' # transactions =>
        /\ DOMAIN transactions' = DOMAIN transactions
        /\ \E p \in Procs :
              /\ pc[p] = "match_status"
              /\ \A i \in DOMAIN transactions :
                    transactions'[i] # transactions[i] =>
                        /\ \E r \in Range(settlement_records) :
                              /\ r.id = Head(loc[p].unmatched).id
                              /\ r.wakala_transaction_id = transactions[i].id
                        /\ transactions'[i] =
                               [transactions[i] EXCEPT
                                   !.status = "settled",
                                   !.settled_at =
                                       <<Head(loc[p].unmatched).settlement_date>>]

\* C17: a transaction becomes settled, and gets its settled_at, only by a
\* successful match: in every reachable state each settled transaction is
\* referenced by the link of at least one settlement record and its
\* settled_at is the settlement date of a record linked to it, and no step
\* other than the status update of the match step (clear, detectors,
\* ingestion) changes a transaction.
C17_SettledOnlyByMatch == []SettledByMatch /\ [][OnlyMatchSettles]_vars

\* a transaction was settled twice: two records are linked to it and its
\* settled_at is the date of the later one
C17_Witness ==
    \E t \in Range(transactions) :
        /\ t.status = "settled"
        /\ t.settled_at = <<30>>
        /\ Cardinality({i \in DOMAIN settlement_records :
               settlement_records[i].wakala_transaction_id = t.id}) = 2

----------------------------------------------------------------------------
(* Properties of the errors of ingestion *)

RunSteps ==
    {"clear", "get_unmatched", "match", "match_status", "detect_missing",
     "detect_mismatches", "detect_orphaned", "insert_missing",
     "insert_mismatches", "insert_orphaned"}

\* the run that IngestReport triggered ends in this step on a failed store
\* call
RunFails(p) ==
    /\ call[p].op = "ingest"
    /\ pc[p] \in RunSteps
    /\ pc'[p] = "done"
    /\ faults' < faults

RecordsOf(table, reportID) ==
    {i \in DOMAIN table : table[i].report_id = reportID}

\* C18: a failure of the reconciliation run that IngestReport triggers does
\* not fail the ingestion: whichever step of the run fails, IngestReport
\* returns success with the real report id, the number of records the call
\* newly inserted and discrepancies_detected = 0, and the report row and the
\* records the call wrote are still stored.
C18_ReconFailureNotFatal ==
    [][\A p \in Procs :
          RunFails(p) =>
              LET res == result'[p]
              IN  /\ res.err = ""
                  /\ res.report_id = loc[p].reportID
                  /\ res.report_id # "already-ingested"
                  /\ res.records_ingested =
                         Cardinality(RecordsOf(settlement_records',
                                               res.report_id))
                  /\ res.discrepancies_detected = 0
                  /\ \E r \in settlement_reports' :
                         /\ r.id = res.report_id
                         /\ r.file_hash = Sha256Hex(call[p].data)
                  /\ Ids(loc[p].records) \subseteq Ids(settlement_records')
                  /\ settlement_reports' = settlement_reports
                  /\ settlement_records' = settlement_records]_vars

\* an ingestion that stored records and whose run failed has returned, while
\* discrepancies of an earlier run are on file
C18_Witness ==
    \E p \in Procs :
        /\ pc[p] = "done" /\ call[p].op = "ingest"
        /\ hist[p].runs = 1 /\ hist[p].faulted
        /\ Stored(result[p])
        /\ result[p].recon.err \notin {"", "not run"}
        /\ result[p].records_ingested > 0
        /\ result[p].discrepancies_detected = 0
        /\ discrepancies # <<>>

FormatTags == {"csv_a", "json_b", "csv_c"}

\* caller p calls IngestReport in this step
Ingests(p) == pc[p] = "idle" /\ call'[p].op = "ingest"

DigestStored(data) ==
    \E r \in settlement_reports : r.file_hash = Sha256Hex(data)

\* the call is over in its first step: no parser ran, nothing was written
\* and no run was started
EndsAtOnce(p) ==
    /\ pc'[p] = "done"
    /\ ~hist'[p].parsed
    /\ hist'[p].runs = 0
    /\ stores' = stores

\* C19 as stated: for every input and every state of the store, IngestReport
\* with a tag outside {csv_a, json_b, csv_c} returns an error, runs no
\* parser, persists nothing and triggers no reconciliation.
C19_UnknownTagFails ==
    [][\A p \in Procs :
          (Ingests(p) /\ call'[p].format \notin FormatTags) =>
              /\ EndsAtOnce(p)
              /\ result'[p].err # ""]_vars

\* C19: IngestReport with a tag outside {csv_a, json_b, csv_c} ends at once,
\* runs no parser, persists nothing and triggers no reconciliation.  It
\* returns the error "unsupported format" when the digest of the bytes is not
\* stored; when the digest is stored the digest check, which comes before the
\* dispatch, returns the already-ingested sentinel as a success; when the
\* digest lookup fails it returns that error.
C19_UnknownTagEnds ==
    [][\A p \in Procs :
          (Ingests(p) /\ call'[p].format \notin FormatTags) =>
              /\ EndsAtOnce(p)
              /\ IF faults' < faults
                 THEN result'[p].err = "check hash"
                 ELSE IF DigestStored(call'[p].data)
                 THEN /\ result'[p].err = ""
                      /\ result'[p].report_id = "already-ingested"
                      /\ result'[p].records_ingested = 0
                 ELSE result'[p].err = "unsupported format"]_vars

\* bytes that are not stored were sent under an unknown tag and refused,
\* while another report is on file
C19_Witness ==
    \E p \in Procs :
        /\ pc[p] = "done" /\ call[p].op = "ingest"
        /\ call[p].format \notin FormatTags
        /\ result[p].err = "unsupported format"
        /\ ~DigestStored(call[p].data)
        /\ settlement_reports # {}

\* the delimiter of the parser a tag selects
Delimiter(format) == IF format = "csv_c" THEN "|" ELSE ","

BadHeader(data, format) ==
    \/ File(data).kind # "csv"
    \/ FieldsSeen(File(data), Delimiter(format), File(data).header) < 7

BadRow(data) ==
    \E i \in DOMAIN File(data).rows :
        ~File(data).rows[i].numok \/ ~File(data).rows[i].dateok

\* the header has the wrong shape for the parser of the tag, or a row has a
\* number or a date that does not parse
Malformed(data, format) ==
    /\ format \in {"csv_a", "csv_c"}
    /\ BadHeader(data, format) \/ BadRow(data)

\* C20: a parse error aborts the whole file with no partial persistence.
\* When the header has the wrong shape or any row has an unparseable number
\* or date, the parser returns an error and no records, and IngestReport
\* returns an error and leaves reports, records, transactions and
\* discrepancies as they were; the digest of the bytes is not stored, so a
\* later call with the same bytes is not answered by the already-ingested
\* sentinel.  (Bytes whose digest is not stored, digest lookup succeeded.)
C20_ParseErrorAborts ==
    [][\A p \in Procs :
          (Ingests(p) /\ ~DigestStored(call'[p].data) /\ faults' = faults) =>
              /\ ~(pc'[p] = "done" /\ result'[p].err = "")
              /\ Malformed(call'[p].data, call'[p].format) =>
                     LET parse == ParseByFormat(call'[p].format, call'[p].data,
                                                <<"RPT", call'[p].processor,
                                                  nano>>).parse
                     IN  /\ parse.err /\ parse.records = <<>>
                         /\ pc'[p] = "done"
                         /\ result'[p].err = "parse"
                         /\ hist'[p].parsed /\ hist'[p].runs = 0
                         /\ stores' = stores
                         /\ \A r \in settlement_reports' :
                                r.file_hash # Sha256Hex(call'[p].data)]_vars

\* a file whose header and first row are well formed and whose second row
\* is not was refused, while another report is on file
C20_Witness ==
    \E p \in Procs :
        /\ pc[p] = "done" /\ call[p].op = "ingest"
        /\ result[p].err = "parse"
        /\ ~BadHeader(call[p].data, call[p].format)
        /\ File(call[p].data).rows[1].numok
        /\ File(call[p].data).rows[1].dateok
        /\ BadRow(call[p].data)
        /\ ~DigestStored(call[p].data)
        /\ settlement_reports # {}

----------------------------------------------------------------------------
(* Properties of the stored records *)

\* the records the parser of the call reads from its bytes
ParsedBy(c, reportID) ==
    ParseByFormat(c.format, c.data, reportID).parse.records

\* C21: for every successful ingest that is not the already-ingested
\* sentinel, records_ingested is the number of settlement records the call
\* added to the store, duplicates_skipped is the number of parsed records
\* minus records_ingested, discrepancies_detected is the total of the run the
\* call triggered (0 when the run failed), and the stored report row has
\* record_count = the number of parsed records.
C21_IngestionCounts ==
    \A p \in Procs :
        (pc[p] = "done" /\ call[p].op = "ingest" /\ Stored(result[p])) =>
            LET res == result[p]
                parsed == Len(ParsedBy(call[p], res.report_id))
            IN  /\ res.records_ingested =
                       Cardinality(RecordsOf(settlement_records, res.report_id))
                /\ res.duplicates_skipped = parsed - res.records_ingested
                /\ res.discrepancies_detected =
                       IF res.recon.err = "" THEN res.recon.TotalDiscrepancies
                       ELSE 0
                /\ \E r \in settlement_reports :
                       /\ r.id = res.report_id
                       /\ r.record_count = parsed

\* an ingest stored one record of its file, skipped another as a duplicate
\* and its run found discrepancies
C21_Witness ==
    \E p \in Procs :
        /\ pc[p] = "done" /\ call[p].op = "ingest" /\ Stored(result[p])
        /\ result[p].records_ingested > 0
        /\ result[p].duplicates_skipped > 0
        /\ result[p].discrepancies_detected > 0

\* the fields of a stored record that come from the row of the file
RowOf(rec) ==
    [processor |-> rec.processor, ref |-> rec.processor_transaction_id,
     gross |-> rec.gross_amount, fee |-> rec.fee_amount,
     net |-> rec.net_amount, date |-> rec.settlement_date,
     batch |-> rec.batch_id]

\* C22: the insert-or-ignore write keyed by the record id protects against
\* duplicate rows: a row that appears twice inside one file, or that is
\* stored and uploaded again in a file with another digest, is persisted as
\* a single settlement record for its processor reference.
C22_SingleRecordPerRow ==
    \A i, j \in DOMAIN settlement_records :
        RowOf(settlement_records[i]) = RowOf(settlement_records[j]) => i = j

\* the report ids a call can draw
ReportIDs ==
    {<<"RPT", q, n>> : q \in {"afripay", "capepay", "nairagateway"},
                       n \in 0..MaxIngests}

Amounts(rec) ==
    <<rec.gross_amount, rec.fee_amount, rec.net_amount, rec.usd_gross_amount,
      rec.usd_net_amount>>

\* the id a parser gives the record at index i of its output
IdByPosition(format, rec, i) ==
    CASE format = "csv_a" -> <<"SR-AP", rec.processor_transaction_id, i + 1>>
      [] format = "csv_c" -> <<"SR-CP", rec.processor_transaction_id, i + 1>>
      [] format = "json_b" -> <<"SR-NG", rec.processor_transaction_id, i - 1>>

\* C23: each parser derives the id of a record from the processor's
\* reference and the position of the row only: parsing the bytes of a call
\* again, under any report id, yields the same sequence of record ids and
\* the same amounts as the parse the call made.
C23_DeterministicIds ==
    \A p \in Procs :
        pc[p] = "insert_report" =>
            \A rid \in ReportIDs :
                LET first == loc[p].records
                    again == ParsedBy(call[p], rid)
                IN  /\ Len(again) = Len(first)
                    /\ \A i \in DOMAIN first :
                          /\ again[i].id = first[i].id
                          /\ Amounts(again[i]) = Amounts(first[i])
                          /\ first[i].id =
                                 IdByPosition(call[p].format, first[i], i)

\* a file of two rows was parsed under a report id other than the first
C23_Witness ==
    \E p \in Procs :
        /\ pc[p] = "insert_report"
        /\ Len(loc[p].records) = 2
        /\ loc[p].reportID # <<"RPT", call[p].processor, 0>>
        /\ loc[p].reportID \in ReportIDs

\* a CSV file with a header of seven fields for the parser of the tag,
\* numbers and dates that parse, and a data row of fewer than seven fields
ShortRow(data, format) ==
    /\ format \in {"csv_a", "csv_c"}
    /\ ~BadHeader(data, format)
    /\ File(data).header = 7
    /\ ~BadRow(data)
    /\ \E i \in DOMAIN File(data).rows : File(data).rows[i].nfields < 7

WellFormedRows(data) ==
    {i \in DOMAIN File(data).rows : File(data).rows[i].nfields >= 7}

\* C24: in the CSV parsers a data row with fewer than 7 fields, after a
\* valid 7-column header, does not make the parse fail: the parse succeeds
\* and returns the records of all well-formed rows, leaving out only the
\* short one.
C24_ShortRowSkipped ==
    [][\A p \in Procs :
          (/\ Ingests(p)
           /\ ShortRow(call'[p].data, call'[p].format)
           /\ ~DigestStored(call'[p].data)
           /\ faults' = faults) =>
              /\ pc'[p] = "insert_report"
              /\ Len(loc'[p].records) =
                     Cardinality(WellFormedRows(call'[p].data))]_vars

----------------------------------------------------------------------------
(* Properties of the pipeline *)

\* the step of RunFullReconciliation a label belongs to: 1 ClearAll,
\* 2 MatchSettlements, 3 DetectMissingSettlements, 4 DetectAmountMismatches,
\* 5 DetectOrphanedSettlements; 0 outside a run
Stage(label) ==
    CASE label = "clear" -> 1
      [] label \in {"get_unmatched", "match", "match_status"} -> 2
      [] label \in {"detect_missing", "insert_missing"} -> 3
      [] label \in {"detect_mismatches", "insert_mismatches"} -> 4
      [] label \in {"detect_orphaned", "insert_orphaned"} -> 5
      [] OTHER -> 0

\* a run called on its own begins with its ClearAll in this step
RunBegins(p) == pc[p] = "idle" /\ call'[p].op = "recon"

StageNow(p) == IF RunBegins(p) THEN 1 ELSE Stage(pc[p])

\* the errors a run returns from a step
StageErrors(stage) ==
    CASE stage = 1 -> {"clear discrepancies"}
      [] stage = 2 -> {"match settlements"}
      [] stage = 3 -> {"detect missing", "insert_missing"}
      [] stage = 4 -> {"detect mismatches", "insert_mismatches"}
      [] stage = 5 -> {"detect orphaned", "insert_orphaned"}
      [] OTHER -> {}

\* what the run returns in the step that ends it
RunResultNext(p) ==
    IF call'[p].op = "recon" THEN result'[p] ELSE result'[p].recon

\* C25: every RunFullReconciliation executes Clear, MatchSettlements,
\* DetectMissingSettlements, DetectAmountMismatches and
\* DetectOrphanedSettlements in this order, each step finishing before the
\* next starts; when a step returns an error no later step executes and the
\* run returns that error with no result.
C25_PipelineOrder ==
    [][\A p \in Procs :
          Moves(p) =>
              /\ (StageNow(p) = 0 /\ Stage(pc'[p]) > 0) => pc'[p] = "clear"
              /\ StageNow(p) > 0 =>
                     \/ /\ Stage(pc'[p]) \in {StageNow(p), StageNow(p) + 1}
                        /\ result'[p] = result[p]
                     \/ /\ pc'[p] = "done"
                        /\ IF RunResultNext(p).err = ""
                           THEN /\ StageNow(p) = 5
                                /\ "TotalDiscrepancies" \in
                                       DOMAIN RunResultNext(p)
                           ELSE /\ RunResultNext(p).err \in
                                       StageErrors(StageNow(p))
                                /\ DOMAIN RunResultNext(p) = {"err"}
                                /\ faults' < faults]_vars

\* a run ended on the error of its third step after its match step had
\* linked a record
C25_Witness ==
    \E p \in Procs :
        /\ pc[p] = "done"
        /\ hist[p].runs = 1
        /\ RunResult(p).err \in StageErrors(3)
        /\ \E r \in Range(settlement_records) : IsMatched(r)

\* a detector of the run of caller p fails in this step, which is the first
\* store call to fail
DetectorFails(p) ==
    /\ Moves(p)
    /\ StageNow(p) \in 3..5
    /\ pc'[p] = "done"
    /\ RunResultNext(p).err # ""
    /\ faults = MaxFaults
    /\ hist[p].clean

\* C26: a failure of a detector is not rolled back.  When a detector step
\* of a full run fails, the writes of the earlier steps stay committed: the
\* discrepancies of previous runs are gone, the links and the status changes
\* of the match step are in the store, and the discrepancies the earlier
\* detectors inserted are in the store, so the store holds a partially
\* updated discrepancy set.
C26_NoRollback ==
    [][\A p \in Procs :
          DetectorFails(p) =>
              /\ stores' = stores
              /\ Range(discrepancies') = hist[p].emitted
              /\ \A d \in hist[p].cleared \ hist[p].emitted :
                     d \notin Range(discrepancies')
              /\ Cardinality({i \in DOMAIN settlement_records' :
                     IsMatched(settlement_records'[i])}) >= loc[p].matched
              /\ \A rec \in Range(settlement_records') :
                     IF Known(rec) = {} THEN IsUnmatched(rec)
                     ELSE \E t \in Range(transactions') :
                              /\ rec.wakala_transaction_id = t.id
                              /\ t.status = "settled"
                              /\ t.settled_at # <<>>]_vars

\* the orphan detector failed after the match step linked a record and the
\* missing-settlement detector inserted its rows: the store holds these
\* rows, an unmatched record and no orphan row, and a row of the run before
\* is gone
C26_Witness ==
    \E p \in Procs :
        /\ pc[p] = "done" /\ hist[p].clean
        /\ RunResult(p).err \in StageErrors(5)
        /\ \E r \in Range(settlement_records) : IsMatched(r)
        /\ \E r \in Range(settlement_records) : IsUnmatched(r)
        /\ \E d \in Range(discrepancies) : d.type = "MISSING_SETTLEMENT"
        /\ \A d \in Range(discrepancies) : d.type # "ORPHANED_SETTLEMENT"
        /\ Range(discrepancies) = hist[p].emitted
        /\ \E d \in hist[p].cleared : d \notin Range(discrepancies)

\* a row the finished run of p wrote and counts in its result is not in the
\* store
Lost(p) ==
    /\ pc[p] = "done"
    /\ RunResult(p).err = ""
    /\ \E d \in hist[p].emitted : d \notin Range(discrepancies)

\* the run of p counted as matched a record another run had linked
CountedTwice(p) ==
    /\ pc[p] = "done"
    /\ RunResult(p).err = ""
    /\ hist[p].relinked # {}
    /\ RunResult(p).MatchedCount >= Cardinality(hist[p].relinked)

\* C27: reconciliation is not safe under concurrency.  With two overlapping
\* full runs whose store calls interleave, a discrepancy written by one run
\* is deleted by the clear of the other while the first still counts it in
\* its result, and a settlement record is counted as matched by both runs.
\* Neither happens to a run that no other caller overlapped.
C27_RaceNeedsOverlap ==
    \A p \in Procs : hist[p].clean => ~Lost(p) /\ ~CountedTwice(p)

\* the finished run of one caller counted a record the other had linked,
\* and the row it wrote was deleted by a later clear of the other
C27_Witness ==
    \E p \in Procs :
        /\ Lost(p)
        /\ CountedTwice(p)
        /\ \E q \in Procs \ {p} :
              \E d \in hist[p].emitted :
                  d \in hist[q].cleared /\ d \notin Range(discrepancies)

----------------------------------------------------------------------------
(* Properties of the amount comparison *)

\* fee_amount, net_amount and usd_net_amount written over a record
FeeCases == {<<0, 0, 0>>, <<1900, 1, 1>>, <<100000, 5000000, 40000>>}

\* the table with the fee fields of the matched records in ids replaced
WithFees(table, ids, fees) ==
    [i \in DOMAIN table |->
        IF IsMatched(table[i]) /\ table[i].id \in ids
        THEN [table[i] EXCEPT !.fee_amount = fees[1], !.net_amount = fees[2],
                              !.usd_net_amount = fees[3]]
        ELSE table[i]]

\* the records whose fee fields differ: one of them, or all
FeeTargets(table) == {Ids(table)} \cup {{id} : id \in Ids(table)}

\* the rows DetectAmountMismatches builds from the two tables
MismatchesOf(records, txns) ==
    LET Emits(rec) ==
            /\ IsMatched(rec)
            /\ GetByID(txns, rec.wakala_transaction_id) # <<>>
            /\ IsMismatch(rec, GetByID(txns, rec.wakala_transaction_id)[1])
    IN  {MismatchDiscrepancy(rec, GetByID(txns, rec.wakala_transaction_id)[1]) :
            rec \in {r \in Range(records) : Emits(r)}}

\* the rows the detector found in this step
FoundNext(p) ==
    IF pc'[p] = "insert_mismatches" THEN Range(loc'[p].discs) ELSE {}

\* C28: fee deduction never triggers a mismatch.  The AMOUNT_MISMATCH rows
\* the detector builds depend on usd_gross_amount of the record and
\* usd_amount of the transaction only: the detector run on the store, and on
\* any store that differs from it in fee_amount, net_amount or
\* usd_net_amount of matched records, builds the same set of rows.
C28_FeeIndependence ==
    [][\A p \in Procs :
          (Moves(p) /\ pc[p] = "detect_mismatches" /\ faults' = faults) =>
              /\ FoundNext(p) = MismatchesOf(settlement_records, transactions)
              /\ \A fees \in FeeCases :
                    \A ids \in FeeTargets(settlement_records) :
                        MismatchesOf(WithFees(settlement_records, ids, fees),
                                     transactions) = FoundNext(p)]_vars

\* the detector has passed two matched records with a fee, one with equal
\* gross amount that it left out and one that it reported
C28_Witness ==
    \E p \in Procs :
        /\ pc[p] = "insert_mismatches" /\ ~hist[p].faulted
        /\ \E r \in Range(settlement_records) :
              /\ IsMatched(r) /\ r.fee_amount > 0
              /\ r.usd_net_amount < r.usd_gross_amount
              /\ \A d \in Range(loc[p].discs) : d.settlement_id # r.id
        /\ \E r \in Range(settlement_records) :
              /\ IsMatched(r) /\ r.fee_amount > 0
              /\ \E d \in Range(loc[p].discs) : d.settlement_id = r.id

\* C29: as the README states the threshold, an AMOUNT_MISMATCH is created
\* for a matched pair whenever the gross USD difference exceeds 0.5% of the
\* transaction amount or exceeds $0.10.
C29_ReadmeThreshold ==
    \A p \in Procs :
        (RunDone(p) /\ ~hist[p].faulted) =>
            \A r \in Range(settlement_records) :
                IsMatched(r) =>
                    LET X == Owner(transactions, r).usd_amount
                        Y == r.usd_gross_amount
                    IN  (X > 0 /\ (Abs(Y - X) * 1000 > 5 * X \/ Abs(Y - X) > 10))
                            => Mismatches(r) # {}

----------------------------------------------------------------------------
(* Properties of the link and the status *)

\* no caller is inside the loop of the match step
BetweenSteps == \A p \in Procs : pc[p] \notin {"match", "match_status"}

\* C30: link and status move together.  In every state between pipeline
\* steps, every settlement record with a transaction link points to an
\* existing transaction whose status is settled, also when the store call
\* that updates the status fails after the link was written.
C30_LinkedIsSettled ==
    BetweenSteps =>
        \A r \in Range(settlement_records) :
            IsMatched(r) =>
                \E t \in Range(transactions) :
                    t.id = r.wakala_transaction_id /\ t.status = "settled"

----------------------------------------------------------------------------
(* Properties of the discrepancy rows *)

\* C31 as stated: every discrepancy written by any detector satisfies
\* difference_usd = actual_usd - expected_usd.
C31_SignedDifference ==
    \A d \in Range(discrepancies) :
        d.difference_usd = d.actual_usd - d.expected_usd

\* C31: an AMOUNT_MISMATCH and an ORPHANED_SETTLEMENT row satisfy
\* difference_usd = actual_usd - expected_usd; a MISSING_SETTLEMENT row has
\* actual_usd = 0 and difference_usd = expected_usd, the amount that was not
\* settled, which is expected_usd - actual_usd.
C31_DifferenceByType ==
    \A d \in Range(discrepancies) :
        IF d.type = "MISSING_SETTLEMENT"
        THEN /\ d.actual_usd = 0
             /\ d.difference_usd = d.expected_usd - d.actual_usd
        ELSE /\ d.type \in {"AMOUNT_MISMATCH", "ORPHANED_SETTLEMENT"}
             /\ d.difference_usd = d.actual_usd - d.expected_usd

\* rows of the three types are on file, the mismatch with a record below the
\* transaction or above it, the missing settlement with a positive amount
C31_Witness ==
    /\ \E d \in Range(discrepancies) :
          d.type = "MISSING_SETTLEMENT" /\ d.difference_usd > 0
    /\ \E d \in Range(discrepancies) :
          d.type = "AMOUNT_MISMATCH" /\ d.difference_usd # 0
    /\ \E d \in Range(discrepancies) :
          d.type = "ORPHANED_SETTLEMENT" /\ d.difference_usd > 0

\* the pair the match step looks a transaction up by
RefOf(rec) == <<rec.processor, rec.processor_transaction_id>>

\* C32 as stated: after any sequence of ingestions and reconciliation runs,
\* no two settlement records are linked to the same transaction.
C32_OneSettlement ==
    \A i, j \in DOMAIN settlement_records :
        (/\ IsMatched(settlement_records[i])
         /\ settlement_records[i].wakala_transaction_id =
                settlement_records[j].wakala_transaction_id) => i = j

\* C32: two settlement records are linked to the same transaction only when
\* they carry the same (processor, processor_reference); when no two stored
\* records carry the same pair, no two are linked to the same transaction.
C32_OneSettlementPerReference ==
    \A i, j \in DOMAIN settlement_records :
        (/\ IsMatched(settlement_records[i])
         /\ settlement_records[i].wakala_transaction_id =
                settlement_records[j].wakala_transaction_id)
            => RefOf(settlement_records[i]) = RefOf(settlement_records[j])

\* records of two processors with the same reference, and a third record,
\* are linked to three transactions; no two stored records share a pair
C32_Witness ==
    /\ \A i, j \in DOMAIN settlement_records :
          RefOf(settlement_records[i]) = RefOf(settlement_records[j]) => i = j
    /\ \E i, j \in DOMAIN settlement_records :
          /\ IsMatched(settlement_records[i])
          /\ IsMatched(settlement_records[j])
          /\ settlement_records[i].processor # settlement_records[j].processor
          /\ settlement_records[i].processor_transaction_id =
                 settlement_records[j].processor_transaction_id
          /\ settlement_records[i].wakala_transaction_id #
                 settlement_records[j].wakala_transaction_id
    /\ Cardinality({i \in DOMAIN settlement_records :
           IsMatched(settlement_records[i])}) >= 3

----------------------------------------------------------------------------
(* Properties of overlapping ingestions *)

\* two ingestion calls that overlapped have both stored their report and
\* returned
BothReturned ==
    \A p \in Procs :
        /\ pc[p] = "done" /\ call[p].op = "ingest"
        /\ Stored(result[p])
        /\ ~hist[p].clean

\* what one serial full run on the tables as they stand would leave
SerialRun ==
    Expected(transactions, settlement_records, now - settlementWindowHours)

HasLink(txnID) ==
    \E r \in Range(settlement_records) : r.wakala_transaction_id = txnID

\* a row a detector built before the link that contradicts it was written
Stale(d) ==
    \/ /\ d.type = "ORPHANED_SETTLEMENT"
       /\ \E r \in Range(settlement_records) :
             r.id = d.settlement_id /\ IsMatched(r)
    \/ /\ d.type = "MISSING_SETTLEMENT"
       /\ HasLink(d.transaction_id)

\* C33 as stated: once two overlapping ingestion calls have both returned,
\* the discrepancy store equals what a single serial full run on the final
\* transactions and settlement records would produce; it holds no
\* ORPHANED_SETTLEMENT for a linked record and no MISSING_SETTLEMENT for a
\* transaction that has a linked record.
C33_Converges ==
    BothReturned =>
        /\ Range(discrepancies) = SerialRun
        /\ \A d \in Range(discrepancies) : ~Stale(d)

\* C33: once two overlapping ingestion calls have both returned, the
\* discrepancy store holds every row a single serial full run on the final
\* tables would produce, and every row it holds was built by a detector of
\* one of the two runs; a row beyond those of the serial run is an
\* ORPHANED_SETTLEMENT for a record that is linked or a MISSING_SETTLEMENT
\* for a transaction that has a linked record.
C33_ConvergesUpToStale ==
    BothReturned =>
        /\ SerialRun \subseteq Range(discrepancies)
        /\ Range(discrepancies) \subseteq
               UNION {hist[p].emitted : p \in Procs}
        /\ \A d \in Range(discrepancies) \ SerialRun : Stale(d)

\* both calls have returned and the store holds an orphan row for a record
\* that is linked
C33_Witness ==
    /\ BothReturned
    /\ \E d \in Range(discrepancies) :
          d.type = "ORPHANED_SETTLEMENT" /\ Stale(d)

----------------------------------------------------------------------------
(* Properties of the result of a run *)

\* the stored discrepancies of a type
OfType(type) == {i \in DOMAIN discrepancies : discrepancies[i].type = type}

\* C34: after a successful full run that no other call overlapped, the
\* number of stored discrepancies of each type is the count of that type in
\* the result, the number of all stored discrepancies is TotalDiscrepancies,
\* and no insert-or-ignore dropped a row: the rows the detectors built have
\* ids of their own and are all stored.
C34_ResultAgreesWithStore ==
    \A p \in Procs :
        RunDone(p) =>
            LET rr == RunResult(p)
            IN  /\ Cardinality(OfType("MISSING_SETTLEMENT")) =
                       rr.MissingSettlements
                /\ Cardinality(OfType("AMOUNT_MISMATCH")) = rr.AmountMismatches
                /\ Cardinality(OfType("ORPHANED_SETTLEMENT")) =
                       rr.OrphanedSettlements
                /\ Len(discrepancies) = rr.TotalDiscrepancies
                /\ \A d, e \in hist[p].emitted : d.id = e.id => d = e
                /\ hist[p].emitted = Range(discrepancies)
                /\ Cardinality(hist[p].emitted) = Len(discrepancies)

\* a run stored missing rows and two orphan rows of records with the same
\* reference
C34_Witness ==
    \E p \in Procs :
        /\ RunDone(p)
        /\ RunResult(p).MissingSettlements > 0
        /\ RunResult(p).OrphanedSettlements >= 2
        /\ \E i, j \in OfType("ORPHANED_SETTLEMENT") :
              /\ i # j
              /\ \E r, q \in Range(settlement_records) :
                    /\ r.id = discrepancies[i].settlement_id
                    /\ q.id = discrepancies[j].settlement_id
                    /\ RefOf(r) = RefOf(q)

----------------------------------------------------------------------------
(* Properties of a failed write of ingestion *)

\* the IngestReport call of p returned the error of InsertReport or of
\* InsertRecords
WriteFailed(p) ==
    /\ pc[p] = "done"
    /\ call[p].op = "ingest"
    /\ result[p].err \in {"insert report", "insert records"}

\* C35 as stated: when IngestReport returns an error because writing the
\* report or the records failed, no report row with the digest of the bytes
\* is stored, and a call that is answered with the already-ingested sentinel
\* was handed bytes whose earlier ingestion succeeded.
C35_NothingLeftBehind ==
    \A p \in Procs :
        /\ WriteFailed(p) => ~DigestStored(call[p].data)
        /\ (pc[p] = "done" /\ call[p].op = "ingest"
                /\ result[p] = AlreadyIngested) => hist[p].again

----------------------------------------------------------------------------
(* Properties of the failures inside the match step *)

\* the record the loop of MatchSettlements is at
Current(p) == Head(loc[p].unmatched)

StoredAs(table, rec) == \E i \in DOMAIN table : table[i] = rec

\* C36: a store error of the lookup or of the link update for one record
\* leaves that record unmatched and uncounted, and the loop goes on with
\* the remaining records without returning an error; the count goes up by
\* one exactly for the records whose link update succeeded: it starts at 0,
\* stays as it is while a record is looked up and linked, and rises by one
\* after the link was written, whatever the status update does.
C36_MatchErrorsSkipped ==
    [][\A p \in Procs :
          /\ (pc[p] = "get_unmatched" /\ pc'[p] \in {"match", "detect_missing"})
                 => loc'[p].matched = 0
          /\ (pc[p] = "match" /\ Moves(p)) =>
                 /\ loc'[p].matched = loc[p].matched
                 /\ pc'[p] \in {"match", "match_status", "detect_missing"}
                 /\ (pc'[p] = "match_status") <=>
                        (/\ settlement_records' # settlement_records
                         /\ \E t \in Range(transactions) :
                               settlement_records' =
                                   Linked(settlement_records, Current(p).id,
                                          t.id))
                 /\ (faults' < faults) =>
                        /\ settlement_records' = settlement_records
                        /\ transactions' = transactions
                        /\ StoredAs(settlement_records', Current(p))
                        /\ IsUnmatched(Current(p))
                        /\ loc'[p].unmatched = Tail(loc[p].unmatched)
                        /\ pc'[p] = MatchPc(Tail(loc[p].unmatched))
                        /\ result'[p] = result[p]
          /\ (pc[p] = "match_status" /\ Moves(p)) =>
                 /\ loc'[p].matched = loc[p].matched + 1
                 /\ \E r \in Range(settlement_records) :
                       r.id = Current(p).id /\ IsMatched(r)
                 /\ pc'[p] = MatchPc(Tail(loc[p].unmatched))]_vars

\* the loop is over: a failure made it skip a record whose transaction is
\* on file, and it counted another record
C36_Witness ==
    \E p \in Procs :
        /\ pc[p] = "detect_missing"
        /\ hist[p].faulted
        /\ loc[p].matched = 1
        /\ \E r \in Range(settlement_records) :
              /\ IsUnmatched(r)
              /\ r \in Range(loc[p].records)
              /\ GetByProcessorRef(transactions, r.processor,
                                   r.processor_transaction_id) # <<>>

----------------------------------------------------------------------------
(* Properties of the order of the writes of ingestion *)

ReportStored(reports, reportID) == \E r \in reports : r.id = reportID

\* C37: an IngestReport call that passed the digest lookup and parsed its
\* bytes writes the report row first, while none of its records is stored
\* and no run has started; then, the report row on file, it writes its
\* records, and only then the run begins with its ClearAll; the call starts
\* this one run and no other, and the GetUnmatchedRecords of the run returns
\* the records the call has just inserted.  A call returns before the run
\* only with the error of one of the two writes.
C37_IngestionOrder ==
    [][\A p \in Procs :
          LET id == loc[p].reportID
          IN  /\ (Ingests(p) /\ pc'[p] # "done") =>
                     /\ pc'[p] = "insert_report"
                     /\ hist'[p].parsed /\ hist'[p].runs = 0
                     /\ stores' = stores
              /\ (pc[p] = "insert_report" /\ Moves(p)) =>
                     /\ RecordsOf(settlement_records, id) = {}
                     /\ settlement_records' = settlement_records
                     /\ discrepancies' = discrepancies
                     /\ hist'[p].runs = 0
                     /\ \/ /\ pc'[p] = "insert_records"
                           /\ ~ReportStored(settlement_reports, id)
                           /\ ReportStored(settlement_reports', id)
                        \/ /\ pc'[p] = "done"
                           /\ result'[p] = IngestError("insert report")
                           /\ settlement_reports' = settlement_reports
              /\ (pc[p] = "insert_records" /\ Moves(p)) =>
                     /\ ReportStored(settlement_reports, id)
                     /\ RecordsOf(settlement_records, id) = {}
                     /\ hist[p].runs = 0
                     /\ discrepancies' = discrepancies
                     /\ transactions' = transactions
                     /\ \/ /\ pc'[p] = "clear"
                           /\ hist'[p].runs = 1
                           /\ Ids(loc[p].records) \subseteq
                                  Ids(settlement_records')
                        \/ /\ pc'[p] = "done"
                           /\ result'[p] = IngestError("insert records")
                           /\ hist'[p].runs = 0
              /\ (call[p].op = "ingest" /\ pc[p] \in RunSteps /\ Moves(p)) =>
                     /\ hist[p].runs = 1 /\ hist'[p].runs = 1
                     /\ pc'[p] \in RunSteps \cup {"done"}
                     /\ ReportStored(settlement_reports', id)
                     /\ Ids(loc[p].records) \subseteq Ids(settlement_records')
                     /\ pc'[p] = "done" => result'[p].report_id = id
              /\ (call[p].op = "ingest" /\ pc[p] = "get_unmatched"
                     /\ pc'[p] \in {"match", "detect_missing"}) =>
                     \A r \in Range(settlement_records) :
                         (r.report_id = id /\ IsUnmatched(r)) =>
                             \E i \in DOMAIN loc'[p].unmatched :
                                 loc'[p].unmatched[i] = r]_vars

\* the run of an ingestion has read the unmatched records, among them the
\* two records the call inserted after its report row
C37_Witness ==
    \E p \in Procs :
        /\ call[p].op = "ingest"
        /\ pc[p] = "match"
        /\ hist[p].runs = 1
        /\ loc[p].inserted = 2
        /\ ReportStored(settlement_reports, loc[p].reportID)
        /\ \A i \in DOMAIN loc[p].records :
              \E j \in DOMAIN loc[p].unmatched :
                  loc[p].unmatched[j] = loc[p].records[i]

----------------------------------------------------------------------------
(* Properties of the status of a transaction *)

NotCaptured(t) == t.status \in {"authorized", "failed"}

\* the settlement record carries the processor and the reference of t
Carries(rec, t) ==
    /\ rec.processor = t.processor
    /\ rec.processor_transaction_id = t.processor_reference

\* C38 as stated: a transaction whose status is authorized or failed keeps
\* its status and has no settled_at after every step of every run, also
\* when a settlement record carries its processor and reference.
C38_OnlyCapturedSettled ==
    [][\A i \in DOMAIN transactions :
          NotCaptured(transactions[i]) =>
              /\ transactions'[i].status = transactions[i].status
              /\ transactions'[i].settled_at = <<>>]_vars

\* C38, amended: the match step settles the transaction its lookup finds,
\* whatever the status of that transaction.  A transaction whose status is
\* authorized or failed changes only in the status update of a record that
\* carries its processor and reference and is linked to it, and then it
\* becomes settled with the settlement date of that record; while no stored
\* record carries its processor and reference it keeps its status.
C38_SettlesWhatLookupFinds ==
    [][\A i \in DOMAIN transactions :
          LET t == transactions[i]
              u == transactions'[i]
          IN  NotCaptured(t) =>
                  /\ u # t =>
                         \E p \in Procs :
                             /\ pc[p] = "match_status"
                             /\ Carries(Current(p), t)
                             /\ \E r \in Range(settlement_records) :
                                   /\ r.id = Current(p).id
                                   /\ r.wakala_transaction_id = t.id
                             /\ u = [t EXCEPT
                                       !.status = "settled",
                                       !.settled_at =
                                           <<Current(p).settlement_date>>]
                  /\ (\A r \in Range(settlement_records') : ~Carries(r, t))
                         => u = t]_vars

\* a transaction that was never captured is settled, next to a failed one
\* whose reference no record carries
C38_Witness ==
    /\ \E t \in Range(transactions) :
          /\ t.status = "settled"
          /\ t.captured_at = <<>>
          /\ t.settled_at # <<>>
    /\ \E t \in Range(transactions) :
          /\ t.status = "failed"
          /\ settlement_records # <<>>

----------------------------------------------------------------------------
(* Properties of the processor of a record *)

\* C39 as stated: every stored settlement record carries the processor of
\* the report it belongs to, which is the processor identifier the caller
\* sent, for every processor identifier and format tag that IngestReport
\* accepts.
C39_ProcessorOfReport ==
    \A i \in DOMAIN settlement_records :
        \A r \in settlement_reports :
            r.id = settlement_records[i].report_id =>
                settlement_records[i].processor = r.processor

====
